---- MODULE Spec2Model ----
(***************************************************************************)
(* A model of src/src/server.ts: the suite-generation pipeline             *)
(* (generateTestsWithAI, generateYamlFromSpec, generateFallbackTests) and  *)
(* the POST /api/generate-suite handler that drives it; then the other     *)
(* endpoints (POST /api/generate with generateTestYaml, /api/settings,     *)
(* POST /api/run) and the WebSocket clients that broadcast() writes to.    *)
(*                                                                         *)
(* Texts that the code only interpolates (project names, URLs, file        *)
(* contents, messages) are TLA+ strings, joined with \o.  The description, *)
(* which the code lower-cases and scans for keywords, is a sequence of     *)
(* one-character strings.  A provider's response text, which the code      *)
(* matches against /\[[\s\S]*\]/ and hands to JSON.parse, is a sequence of *)
(* lexemes (brackets, braces, commas, colons, string and number literals,  *)
(* prose words).                                                           *)
(***************************************************************************)
EXTENDS Integers, Sequences, FiniteSets, TLC

VARIABLES
    pc,             \* position of the request handler / of the function under study
    req,            \* req.body of the request being handled
    serverSettings, \* the module-level settings object
    projectTestDir, \* the handler's local of the same name
    aiArgs,         \* the provider, apiKey and model generateTestsWithAI was called with
    aiResponse,     \* generateTestsWithAI's local: the provider's text (lexemes)
    tests,          \* the sequence generateTestsWithAI returned
    testsCreated,   \* the handler's counter
    files,          \* the file system: sequence of [path, content] writes that succeeded
    events,         \* every message handed to broadcast(), in order
    response,       \* the HTTP response sent, or NoResponse
    netCalls,       \* every fetch() issued, in order
    fallbackCalls,  \* number of calls of generateFallbackTests
    fault,          \* the operation of the environment that failed, "none" when none did
    spec,           \* renderer under study: the spec being rendered
    stepIdx,        \* renderer under study: index of the next step of the loop
    yaml,           \* renderer under study: the pieces appended to `yaml` so far
    clients,        \* the module-level Set of WebSockets
    readyState,     \* readyState of every WebSocket that can exist
    inbox,          \* what each WebSocket's peer has been sent, in order
    child,          \* the subprocess spawned by POST /api/run
    settingsReq,    \* req.body of the latest POST /api/settings
    settingsRes,    \* the HTTP response of the latest settings request
    testContent,    \* POST /api/generate: the handler's local of the same name
    testFile,       \* POST /api/generate: the handler's local testPath
    startTestDir    \* serverSettings.testDir when the request in flight arrived

vars == <<pc, req, serverSettings, projectTestDir, aiArgs, aiResponse, tests,
          testsCreated, files, events, response, netCalls, fallbackCalls, fault,
          spec, stepIdx, yaml, clients, readyState, inbox, child, settingsReq,
          settingsRes, testContent, testFile, startTestDir>>

\* the state of the sockets, the subprocess, the settings endpoint and the
\* single-test handler, which the pipeline's steps leave alone
apiVars == <<clients, readyState, inbox, child, settingsReq, settingsRes,
             testContent, testFile>>

-----------------------------------------------------------------------------
(* Bounds of the model.                                                    *)

\* a description is the concatenation of at most MaxFrags fragments
MaxFrags == 2
\* a spec of the renderer study has at most MaxSteps steps
MaxSteps == 3
\* a spec of the extraction study has at most MaxSpecSteps steps
MaxSpecSteps == 2

-----------------------------------------------------------------------------
(* Characters and case.                                                    *)

Upper == <<"A","B","C","D","E","F","G","H","I","J","K","L","M",
           "N","O","P","Q","R","S","T","U","V","W","X","Y","Z">>
Lower == <<"a","b","c","d","e","f","g","h","i","j","k","l","m",
           "n","o","p","q","r","s","t","u","v","w","x","y","z">>

toLowerChar(c) ==
    IF \E i \in 1..26 : Upper[i] = c
    THEN Lower[CHOOSE i \in 1..26 : Upper[i] = c]
    ELSE c

\* toLowerCase left out: the description is scanned as typed
toLowerCase_Identity(s) == s

\* String.prototype.toLowerCase on a sequence of characters
toLowerCase(s) == [i \in 1..Len(s) |-> toLowerChar(s[i])]

\* String.prototype.includes: k occurs in s as a contiguous substring
includes(s, k) ==
    \E i \in 1..(Len(s) - Len(k) + 1) : SubSeq(s, i, i + Len(k) - 1) = k

\* the keywords of generateFallbackTests, as character sequences
KwLogin     == <<"l","o","g","i","n">>
KwAuth      == <<"a","u","t","h">>
KwSignIn    == <<"s","i","g","n"," ","i","n">>
KwSignup    == <<"s","i","g","n","u","p">>
KwRegister  == <<"r","e","g","i","s","t","e","r">>
KwSignUp    == <<"s","i","g","n"," ","u","p">>
KwMessage   == <<"m","e","s","s","a","g","e">>
KwChat      == <<"c","h","a","t">>
KwMessaging == <<"m","e","s","s","a","g","i","n","g">>
KwProfile   == <<"p","r","o","f","i","l","e">>
KwUser      == <<"u","s","e","r">>

-----------------------------------------------------------------------------
(* JavaScript values as JSON.parse produces them, and the operations the   *)
(* renderer applies to them.  Every value is a record [t, s, k]: t the     *)
(* type, s the text of a string, number or boolean, k the elements of an   *)
(* array or the members [key, val] of an object, in source order.          *)

Undefined == [t |-> "undefined", s |-> "", k |-> <<>>]
JNull     == [t |-> "null", s |-> "", k |-> <<>>]
JStr(s)   == [t |-> "str", s |-> s, k |-> <<>>]
JNum(s)   == [t |-> "num", s |-> s, k |-> <<>>]
JBool(s)  == [t |-> "bool", s |-> s, k |-> <<>>]
JArr(k)   == [t |-> "arr", s |-> "", k |-> k]
JObj(k)   == [t |-> "obj", s |-> "", k |-> k]
Member(key, val) == [key |-> key, val |-> val]

Nullish(v) == v.t \in {"undefined", "null"}

\* v.key for a v that is neither null nor undefined (JSON.parse keeps the
\* last of several members with the same key)
Get(v, key) ==
    IF v.t = "obj" /\ \E i \in 1..Len(v.k) : v.k[i].key = key
    THEN v.k[CHOOSE i \in 1..Len(v.k) :
                  /\ v.k[i].key = key
                  /\ \A j \in (i+1)..Len(v.k) : v.k[j].key # key].val
    ELSE Undefined

\* v?.key
OptGet(v, key) == IF Nullish(v) THEN Undefined ELSE Get(v, key)

\* ToBoolean
Truthy(v) ==
    CASE v.t \in {"undefined", "null"} -> FALSE
      [] v.t = "str"  -> v.s # ""
      [] v.t = "num"  -> v.s # "0"
      [] v.t = "bool" -> v.s = "true"
      [] OTHER        -> TRUE

\* a || b
Or(a, b) == IF Truthy(a) THEN a ELSE b

RECURSIVE JoinFrom(_, _)
RECURSIVE JsToString(_)
\* Array.prototype.join(","), from element i on
JoinFrom(k, i) ==
    IF i > Len(k) THEN ""
    ELSE (IF Nullish(k[i]) THEN "" ELSE JsToString(k[i]))
         \o (IF i < Len(k) THEN "," ELSE "") \o JoinFrom(k, i + 1)
\* the string a template literal interpolates for ${v}
JsToString(v) ==
    CASE v.t = "undefined" -> "undefined"
      [] v.t = "null"      -> "null"
      [] v.t = "obj"       -> "[object Object]"
      [] v.t = "arr"       -> JoinFrom(v.k, 1)
      [] OTHER             -> v.s

\* typeof v === 'string' in place of v === 'text'
IsStr_TypeOnly(v, text) == v.t = "str"

\* v === 'text'
IsStr(v, text) == v.t = "str" /\ v.s = text

\* whether for (const x of v) can iterate v, and what it iterates
Iterable(v) == v.t \in {"arr", "str"}
Items(v) ==
    IF v.t = "arr" THEN v.k
    ELSE [i \in 1..Len(v.s) |-> JStr(SubSeq(v.s, i, i))]

-----------------------------------------------------------------------------
(* generateFallbackTests (server.ts 397-566).                              *)

Header(title, baseUrl) ==
    "name: " \o title \o "\nplatform: web\n\nconfig:\n  web:\n    baseUrl: "
      \o baseUrl \o "\n    headless: false\n\nsteps:\n"

SmokeTest(projectName, baseUrl) ==
    [name |-> JStr("smoke-test"),
     content |-> Header("Smoke Test", baseUrl)
       \o "  - type: navigate\n    value: /\n\n"
       \o "  - type: wait\n    timeout: 2000\n\n"
       \o "  - type: screenshot\n    name: " \o projectName \o "-home.png\n\n"
       \o "  - type: assert\n    target:\n      css: \"body\"\n"]

LoginTest(projectName, baseUrl) ==
    [name |-> JStr("login-flow"),
     content |-> Header("Login Flow Test", baseUrl)
       \o "  - type: navigate\n    value: /login\n\n"
       \o "  - type: wait\n    timeout: 2000\n\n"
       \o "  - type: input\n    target:\n      css: \"input[type='email'], input[name='email']\"\n    value: \"test@example.com\"\n\n"
       \o "  - type: input\n    target:\n      css: \"input[type='password'], input[name='password']\"\n    value: \"password123\"\n\n"
       \o "  - type: tap\n    target:\n      css: \"button[type='submit']\"\n\n"
       \o "  - type: wait\n    timeout: 3000\n\n"
       \o "  - type: screenshot\n    name: " \o projectName \o "-login-result.png\n"]

SignupTest(projectName, baseUrl) ==
    [name |-> JStr("signup-flow"),
     content |-> Header("Signup Flow Test", baseUrl)
       \o "  - type: navigate\n    value: /signup\n\n"
       \o "  - type: wait\n    timeout: 2000\n\n"
       \o "  - type: screenshot\n    name: " \o projectName \o "-signup-page.png\n\n"
       \o "  - type: input\n    target:\n      css: \"input[type='email'], input[name='email']\"\n    value: \"newuser@example.com\"\n\n"
       \o "  - type: input\n    target:\n      css: \"input[type='password'], input[name='password']\"\n    value: \"password123\"\n\n"
       \o "  - type: tap\n    target:\n      css: \"button[type='submit']\"\n\n"
       \o "  - type: wait\n    timeout: 3000\n\n"
       \o "  - type: screenshot\n    name: " \o projectName \o "-signup-result.png\n"]

MessagingTest(projectName, baseUrl) ==
    [name |-> JStr("messaging"),
     content |-> Header("Messaging Test", baseUrl)
       \o "  - type: navigate\n    value: /messages\n\n"
       \o "  - type: wait\n    timeout: 2000\n\n"
       \o "  - type: screenshot\n    name: " \o projectName \o "-messages.png\n"]

ProfileTest(projectName, baseUrl) ==
    [name |-> JStr("user-profile"),
     content |-> Header("User Profile Test", baseUrl)
       \o "  - type: navigate\n    value: /profile\n\n"
       \o "  - type: wait\n    timeout: 2000\n\n"
       \o "  - type: screenshot\n    name: " \o projectName \o "-profile.png\n"]

\* an early return for an empty description, before the smoke test is pushed
generateFallbackTests_EmptyFirst(description, projectName, baseUrl) ==
    IF description = <<>> THEN <<>> ELSE <<SmokeTest(projectName, baseUrl)>>

generateFallbackTests(description, projectName, baseUrl) ==
    LET desc == toLowerCase(description)
        t0 == <<SmokeTest(projectName, baseUrl)>>
        t1 == IF includes(desc, KwLogin) \/ includes(desc, KwAuth) \/ includes(desc, KwSignIn)
              THEN Append(t0, LoginTest(projectName, baseUrl)) ELSE t0
        t2 == IF includes(desc, KwSignup) \/ includes(desc, KwRegister) \/ includes(desc, KwSignUp)
              THEN Append(t1, SignupTest(projectName, baseUrl)) ELSE t1
        t3 == IF includes(desc, KwMessage) \/ includes(desc, KwChat) \/ includes(desc, KwMessaging)
              THEN Append(t2, MessagingTest(projectName, baseUrl)) ELSE t2
        t4 == IF includes(desc, KwProfile) \/ includes(desc, KwUser)
              THEN Append(t3, ProfileTest(projectName, baseUrl)) ELSE t3
    IN  t4

-----------------------------------------------------------------------------
(* generateYamlFromSpec (server.ts 343-394).                               *)

\* the template literal `yaml` starts from (344-353)
YamlHeader(sp, baseUrl) ==
    "name: " \o JsToString(Or(Get(sp, "description"), Get(sp, "name")))
      \o "\nplatform: web\n\nconfig:\n  web:\n    baseUrl: " \o baseUrl
      \o "\n    headless: false\n\nsteps:\n"

\* reading step.type of null throws a TypeError (356)
StepThrows(step) == Nullish(step)

\* what one iteration of the loop appends to `yaml` (356-390): a sequence of
\* one piece, or no piece when no branch matches
StepBlock(step) ==
    LET type == Get(step, "type") IN
    CASE IsStr(type, "navigate") ->
           <<"  - type: navigate\n    value: " \o JsToString(Get(step, "value")) \o "\n\n">>
      [] IsStr(type, "wait") ->
           <<"  - type: wait\n    timeout: "
               \o JsToString(Or(Get(step, "timeout"), JNum("2000"))) \o "\n\n">>
      [] IsStr(type, "input") ->
           <<"  - type: input\n    target:\n      css: \""
               \o JsToString(Or(OptGet(Get(step, "target"), "css"), JStr("input")))
               \o "\"\n    value: \"" \o JsToString(Or(Get(step, "value"), JStr("")))
               \o "\"\n\n">>
      [] IsStr(type, "tap") ->
           <<"  - type: tap\n    target:\n      css: \""
               \o JsToString(Or(OptGet(Get(step, "target"), "css"), JStr("button")))
               \o "\"\n\n">>
      [] IsStr(type, "screenshot") ->
           <<"  - type: screenshot\n    name: "
               \o JsToString(Or(Get(step, "name"), JStr("screenshot.png"))) \o "\n\n">>
      [] IsStr(type, "assert") ->
           <<"  - type: assert\n    target:\n      css: \""
               \o JsToString(Or(OptGet(Get(step, "target"), "css"), JStr("body")))
               \o "\"\n\n">>
      [] OTHER -> <<>>

RECURSIVE Flatten(_)
\* the string the pieces make up
Flatten(pieces) ==
    IF pieces = <<>> THEN "" ELSE Head(pieces) \o Flatten(Tail(pieces))

RECURSIVE YamlBlocks(_, _)
\* the pieces the loop appends for steps i.. of `steps`
YamlBlocks(steps, i) ==
    IF i > Len(steps) THEN <<>>
    ELSE StepBlock(steps[i]) \o YamlBlocks(steps, i + 1)

\* whether generateYamlFromSpec(sp, ...) throws: sp.description of null
\* (344), iterating a non-iterable sp.steps (355), step.type of null (356)
YamlThrows(sp) ==
    \/ Nullish(sp)
    \/ ~Iterable(Get(sp, "steps"))
    \/ \E i \in 1..Len(Items(Get(sp, "steps"))) : StepThrows(Items(Get(sp, "steps"))[i])

\* its result when it does not throw
generateYamlFromSpec(sp, projectName, baseUrl) ==
    Flatten(<<YamlHeader(sp, baseUrl)>> \o YamlBlocks(Items(Get(sp, "steps")), 1))

-----------------------------------------------------------------------------
(* The provider's text as lexemes, the regular expression of line 323 and  *)
(* JSON.parse.                                                             *)

Punct(s) == [c |-> "punct", s |-> s]   \* one of [ ] { } , :
StrLit(s) == [c |-> "str", s |-> s]    \* a string literal with value s
NumLit(s) == [c |-> "num", s |-> s]    \* a number literal
Lit(s)    == [c |-> "lit", s |-> s]    \* null, true or false
Prose(s)  == [c |-> "prose", s |-> s]  \* any other run of text: words, code fences

LB == Punct("[")
RB == Punct("]")

\* a lazy match, /\[[\s\S]*?\]/: from the first "[" to the first "]" after it
jsonMatch_Lazy(text) ==
    LET i == CHOOSE a \in 1..Len(text) :
                 text[a] = LB /\ \A b \in 1..(a-1) : text[b] # LB
        j == CHOOSE a \in (i+1)..Len(text) :
                 text[a] = RB /\ \A b \in (i+1)..(a-1) : text[b] # RB
    IN  SubSeq(text, i, j)

\* aiResponse.match(/\[[\s\S]*\]/): the match runs from the first "[" to the
\* last "]" after it; null when there is none
HasMatch(text) ==
    \E i, j \in 1..Len(text) : i < j /\ text[i] = LB /\ text[j] = RB
jsonMatch(text) ==
    LET i == CHOOSE a \in 1..Len(text) :
                 text[a] = LB /\ \A b \in 1..(a-1) : text[b] # LB
        j == CHOOSE a \in 1..Len(text) :
                 text[a] = RB /\ \A b \in (a+1)..Len(text) : text[b] # RB
    IN  SubSeq(text, i, j)

ParseFail == [ok |-> FALSE, v |-> Undefined, next |-> 0]
ParseOk(v, next) == [ok |-> TRUE, v |-> v, next |-> next]
At(t, i) == IF i \in 1..Len(t) THEN t[i] ELSE Prose("")

RECURSIVE ParseValue(_, _)
RECURSIVE ParseElems(_, _, _)
RECURSIVE ParseMembers(_, _, _)
\* the JSON value that starts at lexeme i of t
ParseValue(t, i) ==
    LET tok == At(t, i) IN
    CASE tok = LB ->
           IF At(t, i + 1) = RB THEN ParseOk(JArr(<<>>), i + 2)
           ELSE ParseElems(t, i + 1, <<>>)
      [] tok = Punct("{") ->
           IF At(t, i + 1) = Punct("}") THEN ParseOk(JObj(<<>>), i + 2)
           ELSE ParseMembers(t, i + 1, <<>>)
      [] tok.c = "str" -> ParseOk(JStr(tok.s), i + 1)
      [] tok.c = "num" -> ParseOk(JNum(tok.s), i + 1)
      [] tok = Lit("null") -> ParseOk(JNull, i + 1)
      [] tok \in {Lit("true"), Lit("false")} -> ParseOk(JBool(tok.s), i + 1)
      [] OTHER -> ParseFail
\* the elements of an array, from lexeme i on, after the elements acc
ParseElems(t, i, acc) ==
    LET r == ParseValue(t, i) IN
    IF ~r.ok THEN ParseFail
    ELSE CASE At(t, r.next) = Punct(",") -> ParseElems(t, r.next + 1, Append(acc, r.v))
           [] At(t, r.next) = RB -> ParseOk(JArr(Append(acc, r.v)), r.next + 1)
           [] OTHER -> ParseFail
\* the members of an object, from lexeme i on, after the members acc
ParseMembers(t, i, acc) ==
    IF At(t, i).c # "str" \/ At(t, i + 1) # Punct(":") THEN ParseFail
    ELSE LET r == ParseValue(t, i + 2) IN
         IF ~r.ok THEN ParseFail
         ELSE LET m == Append(acc, Member(At(t, i).s, r.v)) IN
              CASE At(t, r.next) = Punct(",") -> ParseMembers(t, r.next + 1, m)
                [] At(t, r.next) = Punct("}") -> ParseOk(JObj(m), r.next + 1)
                [] OTHER -> ParseFail

\* a parser that stops after the first value and ignores what follows it
JSONparse_Prefix(t) == ParseValue(t, 1)

\* JSON.parse(t): the value, when the whole of t is one JSON value; throws
\* (ok = FALSE) otherwise
JSONparse(t) ==
    LET r == ParseValue(t, 1) IN
    IF r.ok /\ r.next = Len(t) + 1 THEN r ELSE ParseFail

-----------------------------------------------------------------------------
(* generateTestsWithAI, the part after the provider's answer (320-340).    *)

Event(type, message) == [type |-> type, message |-> message]

\* aiResponse is [defined, text]: ollamaData.response may be undefined
AiText(text) == [defined |-> TRUE, text |-> text]
AiUndefined  == [defined |-> FALSE, text |-> <<>>]

\* testSpecs.map(spec => ({name: spec.name, content: generateYamlFromSpec(...)}))
\* throws when an element is null (spec.name) or its rendering throws
MapThrows(testSpecs) ==
    \E i \in 1..Len(testSpecs.k) : YamlThrows(testSpecs.k[i])
MapSpecs(testSpecs, projectName, baseUrl) ==
    [i \in 1..Len(testSpecs.k) |->
        [name |-> Get(testSpecs.k[i], "name"),
         content |-> generateYamlFromSpec(testSpecs.k[i], projectName, baseUrl)]]

\* the outcome of lines 321-339: the tests returned, the events broadcast on
\* the way and the number of calls of generateFallbackTests
FallbackOutcome(msgs, description, projectName, baseUrl) ==
    [tests |-> generateFallbackTests(description, projectName, baseUrl),
     msgs |-> msgs, fallbacks |-> 1]
ParseFailedMsg == <<Event("output", "Failed to parse AI response, using fallback")>>
NoJsonMsg == <<Event("output", "AI response did not contain valid JSON, using fallback")>>

\* an empty array of specs taken for a failure
ExtractedOutcome_EmptyFallsBack(testSpecs, description, projectName, baseUrl) ==
    IF Len(testSpecs.k) = 0
    THEN FallbackOutcome(<<>>, description, projectName, baseUrl)
    ELSE [tests |-> MapSpecs(testSpecs, projectName, baseUrl),
          msgs |-> <<>>, fallbacks |-> 0]

\* lines 332-335: the rendered specs are returned as they are
ExtractedOutcome(testSpecs, description, projectName, baseUrl) ==
    [tests |-> MapSpecs(testSpecs, projectName, baseUrl),
     msgs |-> <<>>, fallbacks |-> 0]

ParseAI(ai, description, projectName, baseUrl) ==
    IF ~ai.defined
    THEN \* undefined.match throws a TypeError inside the try
         FallbackOutcome(ParseFailedMsg, description, projectName, baseUrl)
    ELSE IF ~HasMatch(ai.text)
    THEN FallbackOutcome(NoJsonMsg, description, projectName, baseUrl)
    ELSE LET r == JSONparse(jsonMatch(ai.text)) IN
         IF ~r.ok \/ MapThrows(r.v)
         THEN FallbackOutcome(ParseFailedMsg, description, projectName, baseUrl)
         ELSE ExtractedOutcome(r.v, description, projectName, baseUrl)

-----------------------------------------------------------------------------
(* Inputs.                                                                 *)

\* pieces of descriptions: mixed case, keywords split over two pieces
\* ("Log" "in", "Sign " "up", "Messag" "ing") and pieces that name none
Fragments ==
    {<<"L","o","g">>,
     <<"i","n">>,
     <<"S","i","g","n"," ">>,
     <<"S","i","g","n">>,
     <<"u","p">>,
     <<"A","U","T","H">>,
     <<"r","e","g","i","s","t","e","r">>,
     <<"M","e","s","s","a","g">>,
     <<"e">>,
     <<"i","n","g">>,
     <<"C","h","a","t">>,
     <<"P","r","o","f","i","l","e">>,
     <<"u","s","e","r">>,
     <<"s","h","o","p"," ">>,
     <<"L","O","G","I","N"," ","s","i","g","n","u","p">>,
     <<"c","h","a","t"," ","U","s","e","r">>}

RECURSIVE Concats(_)
\* the concatenations of at most n fragments
Concats(n) ==
    IF n = 0 THEN {<<>>}
    ELSE Concats(n - 1) \cup {a \o f : a \in Concats(n - 1), f \in Fragments}

\* req.body.description of the fallback study
Descriptions == Concats(MaxFrags)
ProjectNames == {"shop", "my app"}
BaseUrls == {"http://localhost:3000"}

DefaultTestDir == "/home/huck/staryo/website/intellitester-tests"
DefaultSettings ==
    [provider |-> "ollama", apiKey |-> "", model |-> "", testDir |-> DefaultTestDir]

NoResponse == [status |-> 0, body |-> [none |-> TRUE]]

Body(description, projectName, baseUrl, provider, apiKey, model) ==
    [description |-> description, projectName |-> projectName, baseUrl |-> baseUrl,
     provider |-> provider, apiKey |-> apiKey, model |-> model]

\* the steps a provider may put in a spec: one of each recognized type, and
\* steps the renderer does not recognize
Target(css) == Member("target", JObj(<<Member("css", JStr(css))>>))
StepNavigate   == JObj(<<Member("type", JStr("navigate")), Member("value", JStr("/"))>>)
StepWait       == JObj(<<Member("type", JStr("wait")), Member("timeout", JNum("3000"))>>)
StepWaitNoTime == JObj(<<Member("type", JStr("wait"))>>)
StepInput      == JObj(<<Member("type", JStr("input")), Target("#email"),
                         Member("value", JStr("a@b.c"))>>)
StepTap        == JObj(<<Member("type", JStr("tap")), Target("button")>>)
StepScreenshot == JObj(<<Member("type", JStr("screenshot")), Member("name", JStr("s.png"))>>)
StepAssert     == JObj(<<Member("type", JStr("assert")), Target("h1")>>)
StepBogus      == JObj(<<Member("type", JStr("bogus-type")), Member("value", JStr("/"))>>)
StepNoType     == JObj(<<Member("value", JStr("/"))>>)
StepString     == JStr("bogus-type")
StepNull       == JNull

StepVocabulary == {"navigate", "wait", "input", "tap", "screenshot", "assert"}

StepValues ==
    {StepNavigate, StepWait, StepWaitNoTime, StepInput, StepTap, StepScreenshot,
     StepAssert, StepBogus, StepNoType, StepString, StepNull}

RECURSIVE SeqsUpTo(_, _)
\* the sequences of at most n elements of S
SeqsUpTo(S, n) ==
    IF n = 0 THEN {<<>>}
    ELSE SeqsUpTo(S, n - 1) \cup {Append(a, x) : a \in SeqsUpTo(S, n - 1), x \in S}

TestSpec(name, steps) ==
    JObj(<<Member("name", JStr(name)), Member("steps", steps)>>)

\* the specs of the renderer study: every step list up to MaxSteps, and specs
\* whose `steps` is no array
RenderSpecs ==
    {TestSpec("x", JArr(st)) : st \in SeqsUpTo(StepValues, MaxSteps)}
      \cup {TestSpec("x", JStr("ab")), TestSpec("x", JNum("7")),
            JObj(<<Member("name", JStr("x"))>>), JNull}

NoArgs == [called |-> FALSE, provider |-> "", apiKey |-> "", model |-> ""]

\* the WebSockets that can connect; one that has not yet connected is ABSENT
Sockets == {"ws1", "ws2"}
\* no subprocess has been spawned; no settings request has arrived
NoChild == [state |-> "none", code |-> Undefined, out |-> 0, args |-> <<>>, cwd |-> ""]
NoSettingsReq == [provider |-> "", apiKey |-> "", model |-> "", testDir |-> ""]

\* the handler's and the renderer's variables before any request
Quiet ==
    /\ projectTestDir = ""
    /\ aiArgs = NoArgs
    /\ fault = "none"
    /\ tests = <<>>
    /\ testsCreated = 0
    /\ files = <<>>
    /\ events = <<>>
    /\ response = NoResponse
    /\ netCalls = <<>>
    /\ fallbackCalls = 0
    /\ stepIdx = 0
    /\ yaml = <<>>
    /\ clients = {}
    /\ readyState = [ws \in Sockets |-> "ABSENT"]
    /\ inbox = [ws \in Sockets |-> <<>>]
    /\ child = NoChild
    /\ settingsReq = NoSettingsReq
    /\ settingsRes = NoResponse
    /\ testContent = Undefined
    /\ testFile = ""
    /\ startTestDir = ""

-----------------------------------------------------------------------------
(* The fallback generator on its own: every description of Descriptions.   *)

InitFallback ==
    /\ pc = "fallback"
    /\ req \in {Body(d, p, u, "", "", "") :
                  d \in Descriptions, p \in ProjectNames, u \in BaseUrls}
    /\ serverSettings = DefaultSettings
    /\ spec = JNull
    /\ aiResponse = AiUndefined
    /\ Quiet

\* one call generateFallbackTests(description, projectName, baseUrl)
CallFallback ==
    /\ pc = "fallback"
    /\ tests' = generateFallbackTests(req.description, req.projectName, req.baseUrl)
    /\ fallbackCalls' = fallbackCalls + 1
    /\ pc' = "fallbackDone"
    /\ UNCHANGED <<req, serverSettings, projectTestDir, aiArgs, aiResponse, testsCreated,
                   files, events, response, netCalls, fault, spec, stepIdx, yaml>>
    /\ UNCHANGED <<apiVars, startTestDir>>

NextFallback == CallFallback
SpecFallback == InitFallback /\ [][NextFallback]_vars

-----------------------------------------------------------------------------
(* The renderer on its own: the loop of generateYamlFromSpec, one          *)
(* iteration per step.                                                     *)

InitRender ==
    /\ pc = "render"
    /\ req = Body(<<>>, "shop", "http://localhost:3000", "", "", "")
    /\ serverSettings = DefaultSettings
    /\ spec \in RenderSpecs
    /\ aiResponse = AiUndefined
    /\ Quiet

\* lines 344-355: the header, then the loop is entered
RenderBegin ==
    /\ pc = "render"
    /\ IF Nullish(spec) \/ ~Iterable(Get(spec, "steps"))
       THEN pc' = "thrown" /\ UNCHANGED <<yaml, stepIdx>>
       ELSE /\ yaml' = <<YamlHeader(spec, req.baseUrl)>>
            /\ stepIdx' = 1
            /\ pc' = "loop"
    /\ UNCHANGED <<req, serverSettings, projectTestDir, aiArgs, aiResponse, tests,
                   testsCreated, files, events, response, netCalls, fallbackCalls, fault,
                   spec>>
    /\ UNCHANGED <<apiVars, startTestDir>>

\* lines 356-390: one iteration
RenderStep ==
    /\ pc = "loop"
    /\ stepIdx <= Len(Items(Get(spec, "steps")))
    /\ LET step == Items(Get(spec, "steps"))[stepIdx] IN
       IF StepThrows(step)
       THEN pc' = "thrown" /\ UNCHANGED <<yaml, stepIdx>>
       ELSE /\ yaml' = yaml \o StepBlock(step)
            /\ stepIdx' = stepIdx + 1
            /\ pc' = pc
    /\ UNCHANGED <<req, serverSettings, projectTestDir, aiArgs, aiResponse, tests,
                   testsCreated, files, events, response, netCalls, fallbackCalls, fault,
                   spec>>
    /\ UNCHANGED <<apiVars, startTestDir>>

\* line 393
RenderReturn ==
    /\ pc = "loop"
    /\ stepIdx > Len(Items(Get(spec, "steps")))
    /\ pc' = "returned"
    /\ UNCHANGED <<req, serverSettings, projectTestDir, aiArgs, aiResponse, tests,
                   testsCreated, files, events, response, netCalls, fallbackCalls, fault,
                   spec, stepIdx, yaml>>
    /\ UNCHANGED <<apiVars, startTestDir>>

NextRender == RenderBegin \/ RenderStep \/ RenderReturn
SpecRender == InitRender /\ [][NextRender]_vars

-----------------------------------------------------------------------------
(* The texts a provider may answer with.                                   *)

RECURSIVE Ser(_)
RECURSIVE SerElems(_, _)
RECURSIVE SerMembers(_, _)
\* the JSON text of a value, as lexemes
Ser(v) ==
    CASE v.t = "arr"  -> <<LB>> \o SerElems(v.k, 1) \o <<RB>>
      [] v.t = "obj"  -> <<Punct("{")>> \o SerMembers(v.k, 1) \o <<Punct("}")>>
      [] v.t = "str"  -> <<StrLit(v.s)>>
      [] v.t = "num"  -> <<NumLit(v.s)>>
      [] v.t = "bool" -> <<Lit(v.s)>>
      [] OTHER        -> <<Lit("null")>>
SerElems(k, i) ==
    IF i > Len(k) THEN <<>>
    ELSE Ser(k[i]) \o (IF i < Len(k) THEN <<Punct(",")>> ELSE <<>>) \o SerElems(k, i + 1)
SerMembers(k, i) ==
    IF i > Len(k) THEN <<>>
    ELSE <<StrLit(k[i].key), Punct(":")>> \o Ser(k[i].val)
           \o (IF i < Len(k) THEN <<Punct(",")>> ELSE <<>>) \o SerMembers(k, i + 1)

\* the spec of the extraction example, and a second one with a description
SpecX == TestSpec("x", JArr(<<StepNavigate>>))
SpecY == JObj(<<Member("name", JStr("user-login")),
                Member("description", JStr("Test user login flow")),
                Member("steps", JArr(<<StepNavigate, StepInput, StepTap, StepWait,
                                       StepScreenshot>>))>>)

\* prose around an array: none, a sentence and a code fence, and prose that
\* itself holds brackets (a code fence, three backquotes, is written
\* <fence>: a TLA+ string cannot hold a backquote)
PlainPrefixes == {<<>>, <<Prose("Here you go:"), Prose("<fence>json")>>, <<Prose("done"), RB>>}
PlainSuffixes == {<<>>, <<Prose("<fence>")>>, <<LB, Prose("end")>>}
BracketPrefix == <<Prose("See"), LB, NumLit("1"), RB, Prose("for details:")>>
BracketSuffix == <<Prose("(note"), LB, StrLit("a"), RB, Prose(")")>>
Prefixes == PlainPrefixes \cup {BracketPrefix}
Suffixes == PlainSuffixes \cup {BracketSuffix}

\* texts that hold no array, or a damaged one
BrokenTexts ==
    {<<>>,
     <<Prose("Sorry, I cannot help with that.")>>,
     <<Prose("tests:"), LB>>,
     <<RB, Prose("then"), LB>>,
     SubSeq(Ser(JArr(<<SpecX>>)), 1, Len(Ser(JArr(<<SpecX>>))) - 1),
     <<LB>> \o Ser(SpecX) \o <<Punct(","), RB>>,
     <<LB, Prose("login"), Punct(","), Prose("signup"), RB>>}

\* the arrays the provider answers with in the request study
MainArrays ==
    {JArr(<<>>), JArr(<<SpecX>>), JArr(<<SpecX, SpecY>>),
     JArr(<<TestSpec("x", JArr(<<StepNavigate, StepNull>>))>>),
     JArr(<<TestSpec("x", JArr(<<StepNavigate, StepString, StepNoType, StepScreenshot>>))>>),
     JArr(<<JNull>>), JArr(<<JNum("1")>>)}

\* the texts of the request study
MainTexts ==
    BrokenTexts
      \cup {Ser(a) : a \in MainArrays}
      \cup {p \o Ser(JArr(<<SpecX>>)) \o s : p \in Prefixes, s \in Suffixes}

-----------------------------------------------------------------------------
(* POST /api/generate-suite (server.ts 187-217) with generateTestsWithAI   *)
(* (220-340) inlined: one action per stretch of code between two awaits.   *)

MainDescriptions == {<<"L","O","G","I","N"," ","s","i","g","n","u","p">>,
                     <<"s","h","o","p"," ">>}
Providers == {"", "ollama", "openai", "anthropic", "gemini"}
ApiKeys == {"", "sk-req"}
Models == {"", "llama3"}
InitialSettings ==
    {[provider |-> p, apiKey |-> k, model |-> "", testDir |-> DefaultTestDir] :
        p \in {"ollama", "anthropic"}, k \in {"", "sk-env"}}
Bodies ==
    {Body(d, "shop", "http://localhost:3000", p, k, m) :
        d \in MainDescriptions, p \in Providers, k \in ApiKeys, m \in Models}
\* what reading the provider's response yields: an error, a body without the
\* text field, or a body with a text
BodyOutcomes ==
    {[kind |-> "bodyfail", text |-> <<>>], [kind |-> "notext", text |-> <<>>]}
      \cup {[kind |-> "text", text |-> t] : t \in MainTexts}

Init ==
    /\ pc = "idle"
    /\ req = Body(<<>>, "", "", "", "", "")
    /\ serverSettings \in InitialSettings
    /\ spec = JNull
    /\ aiResponse = AiUndefined
    /\ Quiet

\* a || b on strings
OrStr(a, b) == IF a # "" THEN a ELSE b

\* the key check of the cloud branches left out
ProviderBranch_NoKeyCheck(provider, apiKey) ==
    IF provider \in {"ollama", "openai", "anthropic"} THEN provider ELSE "fallback"

\* the branch lines 268-318 take
ProviderBranch(provider, apiKey) ==
    CASE provider = "ollama" -> "ollama"
      [] provider = "openai" /\ apiKey # "" -> "openai"
      [] provider = "anthropic" /\ apiKey # "" -> "anthropic"
      [] OTHER -> "fallback"

\* the fetch each branch issues
Fetch(branch, apiKey, model, description, baseUrl) ==
    CASE branch = "ollama" ->
           [url |-> "http://localhost:11434/api/generate", auth |-> "",
            model |-> OrStr(model, "qwen2.5-coder:7b"),
            description |-> description, baseUrl |-> baseUrl]
      [] branch = "openai" ->
           [url |-> "https://api.openai.com/v1/chat/completions",
            auth |-> "Authorization: Bearer " \o apiKey,
            model |-> OrStr(model, "gpt-4o-mini"),
            description |-> description, baseUrl |-> baseUrl]
      [] branch = "anthropic" ->
           [url |-> "https://api.anthropic.com/v1/messages",
            auth |-> "x-api-key: " \o apiKey,
            model |-> OrStr(model, "claude-3-haiku-20240307"),
            description |-> description, baseUrl |-> baseUrl]

\* the success event counts the test being written, not those written
SuccessEvent_OffByOne(n, projectName) ==
    Event("success", "Generated " \o ToString(n + 1) \o " tests for " \o projectName)

SuccessEvent(n, projectName) ==
    Event("success", "Generated " \o ToString(n) \o " tests for " \o projectName)
OkResponse(n, dir) ==
    [status |-> 200, body |-> [success |-> TRUE, testsCreated |-> n, directory |-> dir]]

\* the error response without the status code set
\* res.status(500).json({ error: 'Internal server error' }): a fixed text
ErrorResponse_Generic(message) ==
    [status |-> 500, body |-> [error |-> "Internal server error"]]

ErrorResponse_NoStatus(message) == [status |-> 200, body |-> [error |-> message]]

\* line 215
ErrorResponse(message) == [status |-> 500, body |-> [error |-> message]]

\* line 188-193: the request arrives; the handler runs up to the import
GenerateSuite(body) ==
    /\ pc = "idle"
    /\ req' = body
    /\ events' = Append(events,
          Event("status", "Generating test suite for \"" \o body.projectName \o "\"..."))
    /\ pc' = "import"
    /\ UNCHANGED <<serverSettings, projectTestDir, aiArgs, aiResponse, tests, testsCreated,
                   files, response, netCalls, fallbackCalls, fault, spec, stepIdx, yaml>>
    /\ startTestDir' = serverSettings.testDir
    /\ UNCHANGED apiVars

\* lines 196-197: the import is done; the directory is named and mkdir called
ImportDone ==
    /\ pc = "import"
    /\ projectTestDir' = serverSettings.testDir \o "/" \o req.projectName
    /\ pc' = "mkdir"
    /\ UNCHANGED <<req, serverSettings, aiArgs, aiResponse, tests, testsCreated, files,
                   events, response, netCalls, fallbackCalls, fault, spec, stepIdx, yaml>>
    /\ UNCHANGED <<apiVars, startTestDir>>

\* lines 213-216: an exception reaches the handler's catch
Catch(what, message) ==
    /\ fault' = what
    /\ events' = Append(events, Event("error", message))
    /\ response' = ErrorResponse(message)
    /\ pc' = "done"

\* lines 203-212 up to the first writeFile, or to the end when there is no
\* test: generateTestsWithAI returned `out`
Return(out) ==
    /\ tests' = out.tests
    /\ fallbackCalls' = fallbackCalls + out.fallbacks
    /\ IF out.tests = <<>>
       THEN /\ events' = events \o out.msgs \o <<SuccessEvent(0, req.projectName)>>
            /\ response' = OkResponse(0, projectTestDir)
            /\ pc' = "done"
       ELSE /\ events' = events \o out.msgs
            /\ response' = response
            /\ pc' = "write"

\* line 200 and lines 266-318 up to the fetch: mkdir is done (or failed);
\* generateTestsWithAI is called and takes its branch
MkdirDone(ok) ==
    /\ pc = "mkdir"
    /\ IF ~ok
       THEN /\ Catch("mkdir", "EACCES: permission denied, mkdir '" \o projectTestDir \o "'")
            /\ UNCHANGED <<aiArgs, netCalls, tests, fallbackCalls>>
       ELSE LET provider == OrStr(req.provider, serverSettings.provider)
                apiKey == OrStr(req.apiKey, serverSettings.apiKey)
                model == OrStr(req.model, serverSettings.model)
                branch == ProviderBranch(provider, apiKey)
            IN  /\ aiArgs' = [called |-> TRUE, provider |-> provider,
                              apiKey |-> apiKey, model |-> model]
                /\ IF branch = "fallback"
                   THEN /\ Return(FallbackOutcome(<<>>, req.description,
                                                  req.projectName, req.baseUrl))
                        /\ UNCHANGED <<netCalls, fault>>
                   ELSE /\ netCalls' = Append(netCalls,
                              Fetch(branch, apiKey, model, req.description, req.baseUrl))
                        /\ pc' = "fetch"
                        /\ UNCHANGED <<tests, fallbackCalls, events, response, fault>>
    /\ UNCHANGED <<req, serverSettings, projectTestDir, aiResponse, testsCreated, files,
                   spec, stepIdx, yaml>>
    /\ UNCHANGED <<apiVars, startTestDir>>

\* lines 271/284/300: the fetch settles; on success the body is read
\* a status event is broadcast when the provider has answered
FetchDone_Reports(ok) ==
    /\ pc = "fetch"
    /\ IF ok
       THEN /\ pc' = "json"
            /\ events' = Append(events, Event("status", "AI provider responded"))
            /\ UNCHANGED <<fault, response>>
       ELSE Catch("fetch", "fetch failed")
    /\ UNCHANGED <<req, serverSettings, projectTestDir, aiArgs, aiResponse, tests,
                   testsCreated, files, netCalls, fallbackCalls, spec, stepIdx, yaml>>
    /\ UNCHANGED <<apiVars, startTestDir>>

FetchDone(ok) ==
    /\ pc = "fetch"
    /\ IF ok
       THEN pc' = "json" /\ UNCHANGED <<fault, events, response>>
       ELSE Catch("fetch", "fetch failed")
    /\ UNCHANGED <<req, serverSettings, projectTestDir, aiArgs, aiResponse, tests,
                   testsCreated, files, netCalls, fallbackCalls, spec, stepIdx, yaml>>
    /\ UNCHANGED <<apiVars, startTestDir>>

\* the text lines 281/297/314 take from the body
AiResponseOf(branch, outcome) ==
    IF outcome.kind = "text" /\ (branch = "ollama" \/ outcome.text # <<>>)
    THEN AiText(outcome.text)
    ELSE IF branch = "ollama" THEN AiUndefined ELSE AiText(<<>>)

\* lines 280-339: the body is read (or reading it failed), the text is taken
\* from it and parsed, and generateTestsWithAI returns
JsonDone(outcome) ==
    /\ pc = "json"
    /\ IF outcome.kind = "bodyfail"
       THEN /\ Catch("body", "Unexpected token < in JSON at position 0")
            /\ UNCHANGED <<aiResponse, tests, fallbackCalls>>
       ELSE LET ai == AiResponseOf(ProviderBranch(aiArgs.provider, aiArgs.apiKey), outcome)
            IN  /\ aiResponse' = ai
                /\ Return(ParseAI(ai, req.description, req.projectName, req.baseUrl))
                /\ UNCHANGED fault
    /\ UNCHANGED <<req, serverSettings, projectTestDir, aiArgs, testsCreated, files,
                   netCalls, spec, stepIdx, yaml>>
    /\ UNCHANGED <<apiVars, startTestDir>>

\* the path is built from the testDir in effect when the file is written
TestPath_CurrentDir(dir, test) ==
    serverSettings.testDir \o "/" \o req.projectName \o "/" \o JsToString(test.name)
      \o ".test.yaml"

TestPath(dir, test) == dir \o "/" \o JsToString(test.name) \o ".test.yaml"

\* lines 205-212: a writeFile settles; on success the loop goes on to the
\* next writeFile, or past its end to the success response
WriteDone(ok) ==
    /\ pc = "write"
    /\ LET test == tests[testsCreated + 1]
           testPath == TestPath(projectTestDir, test)
       IN  IF ~ok
           THEN /\ Catch("write", "EACCES: permission denied, open '" \o testPath \o "'")
                /\ UNCHANGED <<files, testsCreated>>
           ELSE /\ files' = Append(files, [path |-> testPath, content |-> test.content])
                /\ testsCreated' = testsCreated + 1
                /\ fault' = fault
                /\ LET created == Event("output",
                          "Created: " \o JsToString(test.name) \o ".test.yaml")
                   IN  IF testsCreated + 1 = Len(tests)
                       THEN /\ events' = events \o <<created,
                                   SuccessEvent(testsCreated + 1, req.projectName)>>
                            /\ response' = OkResponse(testsCreated + 1, projectTestDir)
                            /\ pc' = "done"
                       ELSE /\ events' = Append(events, created)
                            /\ response' = response
                            /\ pc' = pc
    /\ UNCHANGED <<req, serverSettings, projectTestDir, aiArgs, aiResponse, tests, netCalls,
                   fallbackCalls, spec, stepIdx, yaml>>
    /\ UNCHANGED <<apiVars, startTestDir>>

Next ==
    \/ \E body \in Bodies : GenerateSuite(body)
    \/ ImportDone
    \/ \E ok \in BOOLEAN : MkdirDone(ok)
    \/ \E ok \in BOOLEAN : FetchDone(ok)
    \/ \E outcome \in BodyOutcomes : JsonDone(outcome)
    \/ \E ok \in BOOLEAN : WriteDone(ok)

Spec == Init /\ [][Next]_vars

-----------------------------------------------------------------------------
(* The extraction on its own: lines 320-340 for every text made of an      *)
(* array of specs and the prose around it.                                 *)

ExtractSteps ==
    {StepNavigate, StepScreenshot, StepBogus, StepNoType, StepString, StepNull}
ExtractSpecs ==
    {TestSpec("x", JArr(st)) : st \in SeqsUpTo(ExtractSteps, MaxSpecSteps)}
\* the arrays a provider answers with: none, one or two specs
ExtractArrays ==
    {JArr(<<>>)} \cup {JArr(<<sp>>) : sp \in ExtractSpecs}
      \cup {JArr(<<SpecY, sp>>) : sp \in ExtractSpecs}

InitExtract ==
    /\ pc = "parse"
    /\ req = Body(<<"L","o","g","i","n">>, "shop", "http://localhost:3000", "ollama", "", "")
    /\ serverSettings = DefaultSettings
    /\ \/ /\ spec \in ExtractArrays
          /\ aiResponse \in {AiText(p \o Ser(spec) \o s) : p \in Prefixes, s \in Suffixes}
       \/ /\ spec = JNull
          /\ aiResponse \in {AiText(t) : t \in BrokenTexts} \cup {AiUndefined}
    /\ Quiet

\* lines 320-340 for the text in aiResponse
ParseResponse ==
    /\ pc = "parse"
    /\ LET out == ParseAI(aiResponse, req.description, req.projectName, req.baseUrl) IN
       /\ tests' = out.tests
       /\ events' = events \o out.msgs
       /\ fallbackCalls' = fallbackCalls + out.fallbacks
    /\ pc' = "parsed"
    /\ UNCHANGED <<req, serverSettings, projectTestDir, aiArgs, aiResponse, testsCreated,
                   files, response, netCalls, fault, spec, stepIdx, yaml>>
    /\ UNCHANGED <<apiVars, startTestDir>>

NextExtract == ParseResponse
SpecExtract == InitExtract /\ [][NextExtract]_vars

-----------------------------------------------------------------------------
(* Properties of the fallback generator.                                   *)

\* C4: for every description (the empty one included), project label and
\* base URL, generateFallbackTests returns at least one test, and the call
\* issues no provider request, writes no file and broadcasts nothing.
C4_FallbackTotal ==
    pc = "fallbackDone" =>
        /\ Len(tests) >= 1
        /\ netCalls = <<>>
        /\ files = <<>>
        /\ events = <<>>

C4_Witness ==
    pc = "fallbackDone" /\ req.description = <<>> /\ Len(tests) = 1

\* a keyword occurs in a description when some window of the description
\* spells it, letter by letter, in either case
SameLetter(c, k) == c = k \/ \E i \in 1..26 : c = Upper[i] /\ k = Lower[i]
Occurs(d, kw) ==
    \E i \in 1..Len(d) :
        /\ i + Len(kw) - 1 <= Len(d)
        /\ \A j \in 1..Len(kw) : SameLetter(d[i + j - 1], kw[j])
GroupHit(d, group) == \E kw \in group : Occurs(d, kw)
NameIf(hit, name) == IF hit THEN <<name>> ELSE <<>>
ExpectedNames(d) ==
    <<"smoke-test">>
      \o NameIf(GroupHit(d, {KwLogin, KwAuth, KwSignIn}), "login-flow")
      \o NameIf(GroupHit(d, {KwSignup, KwRegister, KwSignUp}), "signup-flow")
      \o NameIf(GroupHit(d, {KwMessage, KwChat, KwMessaging}), "messaging")
      \o NameIf(GroupHit(d, {KwProfile, KwUser}), "user-profile")
TemplateOf(name, projectName, baseUrl) ==
    CASE name = "smoke-test"   -> SmokeTest(projectName, baseUrl)
      [] name = "login-flow"   -> LoginTest(projectName, baseUrl)
      [] name = "signup-flow"  -> SignupTest(projectName, baseUrl)
      [] name = "messaging"    -> MessagingTest(projectName, baseUrl)
      [] name = "user-profile" -> ProfileTest(projectName, baseUrl)

\* C5: the result is the smoke test, then, in the order login-flow,
\* signup-flow, messaging, user-profile, exactly the tests whose keyword
\* group has a member occurring in the description in any letter case; each
\* group is decided on its own and no test appears twice.
C5_FallbackKeywords ==
    pc = "fallbackDone" =>
        LET want == ExpectedNames(req.description) IN
        /\ Len(tests) = Len(want)
        /\ \A i \in 1..Len(want) :
              tests[i] = TemplateOf(want[i], req.projectName, req.baseUrl)
        /\ \A i, j \in 1..Len(tests) : i # j => tests[i].name # tests[j].name

\* an upper-case description that names all four groups
C5_Witness ==
    /\ pc = "fallbackDone"
    /\ req.description = <<"L","O","G","I","N"," ","s","i","g","n","u","p">>
                           \o <<"c","h","a","t"," ","U","s","e","r">>
    /\ Len(tests) = 5

-----------------------------------------------------------------------------
(* Properties of the renderer.                                             *)

StartsWith(text, prefix) ==
    Len(text) >= Len(prefix) /\ SubSeq(text, 1, Len(prefix)) = prefix

\* the type a step declares, "" when it declares none
TypeOfStep(step) ==
    IF step.t = "obj" /\ Get(step, "type").t = "str" THEN Get(step, "type").s ELSE ""

RECURSIVE RecognizedTypes(_)
\* the recognized types among the steps, in order
RecognizedTypes(steps) ==
    IF steps = <<>> THEN <<>>
    ELSE (IF TypeOfStep(Head(steps)) \in StepVocabulary
          THEN <<TypeOfStep(Head(steps))>> ELSE <<>>) \o RecognizedTypes(Tail(steps))

StepsOf(sp) == IF Get(sp, "steps").t = "arr" THEN Get(sp, "steps").k ELSE <<>>

\* C8: when generateYamlFromSpec returns, it has emitted, after the header,
\* exactly one block per step of a recognized type, in the order of the
\* steps, and nothing for any other step.
C8_RenderRecognized ==
    pc = "returned" =>
        LET want == RecognizedTypes(StepsOf(spec)) IN
        /\ Len(yaml) = 1 + Len(want)
        /\ \A i \in 1..Len(want) :
              StartsWith(yaml[i + 1], "  - type: " \o want[i] \o "\n")

\* [navigate, bogus-type, screenshot] renders two blocks
C8_Witness ==
    /\ pc = "returned"
    /\ StepsOf(spec) = <<StepNavigate, StepBogus, StepScreenshot>>
    /\ Len(yaml) = 3
    /\ StartsWith(yaml[2], "  - type: navigate\n")
    /\ StartsWith(yaml[3], "  - type: screenshot\n")

\* the loop, run step by step, builds the text generateYamlFromSpec returns
RenderAgrees ==
    pc = "returned" =>
        Flatten(yaml) = generateYamlFromSpec(spec, req.projectName, req.baseUrl)
RenderThrowsAgrees == (pc = "thrown") => YamlThrows(spec)
RenderReturnsAgrees == (pc = "returned") => ~YamlThrows(spec)

-----------------------------------------------------------------------------
(* Properties of the pipeline and of the request.                          *)

FallbackOfRequest == generateFallbackTests(req.description, req.projectName, req.baseUrl)
Count(type) == Cardinality({i \in DOMAIN events : events[i].type = type})

\* C1: whenever the provider call fails (the fetch rejects, or the response
\* body cannot be read), the pipeline returns the fallback result for the
\* same arguments and the request does not fail.
C1_ProviderFailureFallsBack ==
    fault \in {"fetch", "body"} =>
        /\ tests = FallbackOfRequest
        /\ response.status # 500
        /\ Count("error") = 0

\* the arguments generateTestsWithAI was called with name a cloud provider
\* without a key, or no provider the code knows
NoUsableProvider ==
    /\ aiArgs.called
    /\ \/ aiArgs.provider \in {"openai", "anthropic"} /\ aiArgs.apiKey = ""
       \/ aiArgs.provider \notin {"ollama", "openai", "anthropic"}

\* C2: a call for a cloud provider with an empty apiKey, or for a provider
\* name that is not recognized, issues no network request and returns the
\* fallback result for the same arguments.
C2_NoKeyNoNetwork ==
    NoUsableProvider =>
        /\ netCalls = <<>>
        /\ tests = FallbackOfRequest
        /\ fallbackCalls = 1

C2_Witness ==
    /\ pc = "done"
    /\ aiArgs.called /\ aiArgs.provider = "openai" /\ aiArgs.apiKey = ""
    /\ response.status = 200
    /\ netCalls = <<>>

\* the provider was called and answered, and generateTestsWithAI returned
ProviderAnswered ==
    /\ pc \in {"write", "done"}
    /\ netCalls # <<>>
    /\ fault \notin {"fetch", "body"}

HasBrackets(text) ==
    \E i \in 1..Len(text) : text[i] = LB /\ \E j \in (i+1)..Len(text) : text[j] = RB

\* the text is missing, holds no "[" ... "]", or what lies between its first
\* "[" and its last "]" is the JSON text of none of the provider's arrays
Unextractable(ai) ==
    \/ ~ai.defined
    \/ ~HasBrackets(ai.text)
    \/ \A a \in MainArrays : Ser(a) # jsonMatch(ai.text)

\* C3: when the provider answers but its text cannot be extracted, the
\* pipeline returns exactly what the fallback generator returns for the
\* same arguments.
C3_UnextractableFallsBack ==
    (ProviderAnswered /\ Unextractable(aiResponse)) =>
        /\ tests = FallbackOfRequest
        /\ fallbackCalls = 1

\* prose without any JSON
C3_Witness ==
    /\ ProviderAnswered
    /\ aiResponse = AiText(<<Prose("Sorry, I cannot help with that.")>>)
    /\ tests = FallbackOfRequest
    /\ pc = "done" /\ response.status = 200

\* C6: when the provider's text extracts to the empty array, the pipeline
\* returns no test and does not call the fallback generator; the request
\* succeeds with no file written and a count of 0.
C6_EmptyArrayIsSuccess ==
    (ProviderAnswered /\ aiResponse.defined /\ HasBrackets(aiResponse.text)
       /\ jsonMatch(aiResponse.text) = <<LB, RB>>) =>
        /\ tests = <<>>
        /\ fallbackCalls = 0
        /\ pc = "done"
        /\ response = OkResponse(0, projectTestDir)
        /\ files = <<>>
        /\ Count("success") = 1 /\ Count("error") = 0
        /\ events[Len(events)] = SuccessEvent(0, req.projectName)

C6_Witness ==
    /\ pc = "done"
    /\ aiResponse = AiText(<<LB, RB>>)
    /\ response.status = 200
    /\ response.body.testsCreated = 0
    /\ files = <<>>

\* C10: when the write of the k-th test fails, the request ends with status
\* 500, one error event and no success event; the k-1 files written before
\* stay as they are and no other file of the request is written.
C10_WriteFailure ==
    fault = "write" =>
        /\ pc = "done"
        /\ response.status = 500
        /\ Count("error") = 1
        /\ Count("success") = 0
        /\ testsCreated < Len(tests)
        /\ Len(files) = testsCreated
        /\ \A i \in 1..testsCreated :
              files[i] = [path |-> TestPath(projectTestDir, tests[i]),
                          content |-> tests[i].content]

\* the third write fails, two files stay
C10_Witness ==
    fault = "write" /\ testsCreated = 2 /\ Len(files) = 2

-----------------------------------------------------------------------------
(* Properties of the extraction.                                           *)

NoLB(text) == \A i \in 1..Len(text) : text[i] # LB
NoRB(text) == \A i \in 1..Len(text) : text[i] # RB

\* every step of every spec of the array is an object
AllStepObjects(arr) ==
    \A i \in 1..Len(arr.k) : \A j \in 1..Len(StepsOf(arr.k[i])) :
        StepsOf(arr.k[i])[j].t = "obj"

\* the array's specs rendered, in order
RenderedSpecs(arr) ==
    [i \in 1..Len(arr.k) |->
        [name |-> Get(arr.k[i], "name"),
         content |-> Flatten(<<YamlHeader(arr.k[i], req.baseUrl)>>
                               \o YamlBlocks(StepsOf(arr.k[i]), 1))]]

\* C7 as stated: whatever prose surrounds a well-formed array of test
\* objects, prose with brackets of its own included, extraction finds the
\* array and succeeds with its elements in order.
C7_ArrayInAnyProse ==
    (pc = "parsed" /\ spec.t = "arr" /\ AllStepObjects(spec)) =>
        /\ fallbackCalls = 0
        /\ tests = RenderedSpecs(spec)

\* C7: when the prose before a well-formed array of test objects holds no
\* "[" and the prose after it no "]", extraction takes the text from the
\* first "[" to the last "]", which is the array, drops the prose and
\* succeeds with the array's elements in order.
C7_ArrayInPlainProse ==
    (pc = "parsed" /\ spec.t = "arr" /\ AllStepObjects(spec)
       /\ \E p \in Prefixes, s \in Suffixes :
             NoLB(p) /\ NoRB(s) /\ aiResponse.text = p \o Ser(spec) \o s) =>
        /\ fallbackCalls = 0
        /\ tests = RenderedSpecs(spec)

\* the fenced example: one spec named "x" with one navigate step
C7_Witness ==
    /\ pc = "parsed"
    /\ aiResponse.text = <<Prose("Here you go:"), Prose("<fence>json")>>
                           \o Ser(JArr(<<SpecX>>)) \o <<Prose("<fence>")>>
    /\ fallbackCalls = 0
    /\ Len(tests) = 1
    /\ tests[1].name = JStr("x")
    /\ tests[1].content =
         YamlHeader(SpecX, req.baseUrl) \o "  - type: navigate\n    value: /\n\n"

\* a step that is null, is no object, or has no type
Malformed(step) == step.t # "obj" \/ Get(step, "type").t = "undefined"

RECURSIVE DropMalformed(_)
DropMalformed(steps) ==
    IF steps = <<>> THEN <<>>
    ELSE (IF Malformed(Head(steps)) THEN <<>> ELSE <<Head(steps)>>)
           \o DropMalformed(Tail(steps))

\* C9: malformed steps in an extracted array are dropped; the other steps and
\* the other specs are rendered and returned, and the fallback generator is
\* not called.
C9_MalformedStepDropped ==
    (pc = "parsed" /\ spec.t = "arr" /\ aiResponse.text = Ser(spec)) =>
        /\ fallbackCalls = 0
        /\ Len(tests) = Len(spec.k)
        /\ \A i \in 1..Len(spec.k) :
              tests[i].content =
                Flatten(<<YamlHeader(spec.k[i], req.baseUrl)>>
                          \o YamlBlocks(DropMalformed(StepsOf(spec.k[i])), 1))

-----------------------------------------------------------------------------
(* The other endpoints: POST /api/generate, POST and GET /api/settings,    *)
(* POST /api/run, and the WebSocket server whose clients broadcast()       *)
(* writes to.                                                              *)

\* the pipeline's variables, which the other endpoints leave alone
suiteVars == <<projectTestDir, aiArgs, aiResponse, tests, testsCreated, netCalls,
               fallbackCalls, spec, stepIdx, yaml, startTestDir>>

\* every client of the set is sent the message, whatever its readyState
broadcast_NoStateCheck(messages) ==
    /\ events' = events \o messages
    /\ inbox' = [ws \in Sockets |->
                   IF ws \in clients THEN inbox[ws] \o messages ELSE inbox[ws]]

\* broadcast(m) for each m of messages, in order, with no step in between:
\* every client of the set that is OPEN is sent the message
broadcast(messages) ==
    /\ events' = events \o messages
    /\ inbox' = [ws \in Sockets |->
                   IF ws \in clients /\ readyState[ws] = "OPEN"
                   THEN inbox[ws] \o messages ELSE inbox[ws]]

CREDENTIALS ==
    [user    |-> [email |-> "newuser@test.com", password |-> "Leonidas12!"],
     creator |-> [email |-> "newcreator@test.com", password |-> "Leonidas12!"]]

\* the object literal `tests` of generateTestYaml: one text per scenario
testTemplates(browser, baseUrl, creds) ==
    [
     login |->
        "name: Login Flow Test (" \o browser \o
        ")\nplatform: web\n\nconfig:\n  web:\n    baseUrl: " \o baseUrl \o
        "\n    headless: false\n\nvariables:\n  testEmail: " \o creds.email \o
        "\n  testPassword: " \o creds.password \o
        "\n\nsteps:\n  - type: navigate\n    value: /login\n\n" \o
        "  - type: wait\n    timeout: 2000\n\n  - type: screenshot\n" \o "    name: login-" \o
        browser \o "-initial.png\n\n  - type: input\n    target:\n" \o
        "      css: \"input[type='email'], input[name='email'], #email\"\n" \o
        "    value: \"{{testEmail}}\"\n\n  - type: input\n    target:\n" \o
        "      css: \"input[type='password'], input[name='password'], #password\"\n" \o
        "    value: \"{{testPassword}}\"\n\n  - type: screenshot\n" \o "    name: login-" \o
        browser \o "-filled.png\n\n  - type: tap\n    target:\n" \o
        "      css: \"button[type='submit'], .login-button\"\n\n" \o
        "  - type: wait\n    timeout: 3000\n\n  - type: screenshot\n" \o "    name: login-" \o
        browser \o "-result.png\n",
     signup |->
        "name: Signup Flow Test (" \o browser \o
        ")\nplatform: web\n\nconfig:\n  web:\n    baseUrl: " \o baseUrl \o
        "\n    headless: false\n\nvariables:\n  username: user_{{uuid}}\n" \o "  email: " \o
        creds.email \o "\n  password: " \o creds.password \o
        "\n\nsteps:\n  - type: navigate\n    value: /signup\n\n" \o
        "  - type: wait\n    timeout: 2000\n\n  - type: screenshot\n" \o "    name: signup-" \o
        browser \o "-initial.png\n\n  - type: input\n    target:\n" \o
        "      css: \"input[type='email'], input[name='email']\"\n" \o
        "    value: \"{{email}}\"\n\n  - type: input\n    target:\n" \o
        "      css: \"input[type='password'], input[name='password']\"\n" \o
        "    value: \"{{password}}\"\n\n  - type: screenshot\n" \o "    name: signup-" \o
        browser \o "-filled.png\n\n  - type: tap\n    target:\n" \o
        "      css: \"button[type='submit']\"\n\n  - type: wait\n" \o
        "    timeout: 3000\n\n  - type: screenshot\n    name: signup-" \o browser \o
        "-result.png\n",
     messages |->
        "name: Send Message Test (" \o browser \o
        ")\nplatform: web\n\nconfig:\n  web:\n    baseUrl: " \o baseUrl \o
        "\n    headless: false\n\nvariables:\n  testEmail: " \o creds.email \o
        "\n  testPassword: " \o creds.password \o
        "\n  testMessage: Hello from automated test {{uuid}}\n\nsteps:\n" \o
        "  # Login first\n  - type: navigate\n    value: /login\n\n" \o
        "  - type: wait\n    timeout: 2000\n\n  - type: input\n" \o "    target:\n" \o
        "      css: \"input[type='email'], input[name='email'], #email\"\n" \o
        "    value: \"{{testEmail}}\"\n\n  - type: input\n    target:\n" \o
        "      css: \"input[type='password'], input[name='password'], #password\"\n" \o
        "    value: \"{{testPassword}}\"\n\n  - type: tap\n    target:\n" \o
        "      css: \"button[type='submit'], .login-button\"\n\n" \o
        "  - type: wait\n    timeout: 3000\n\n  - type: screenshot\n" \o
        "    name: messages-" \o browser \o "-after-login.png\n\n  # Navigate to messages\n" \o
        "  - type: navigate\n    value: /messages\n\n  - type: wait\n" \o
        "    timeout: 2000\n\n  - type: screenshot\n    name: messages-" \o browser \o
        "-inbox.png\n\n  # Try to compose a message\n  - type: input\n" \o "    target:\n" \o
        "      css: \"textarea, input[type='text'], .message-input\"\n" \o
        "    value: \"{{testMessage}}\"\n    optional: true\n\n" \o
        "  - type: screenshot\n    name: messages-" \o browser \o
        "-compose.png\n\n  - type: tap\n    target:\n" \o
        "      css: \"button[type='submit'], .send-button\"\n" \o
        "    optional: true\n\n  - type: wait\n    timeout: 2000\n\n" \o
        "  - type: screenshot\n    name: messages-" \o browser \o "-sent.png\n",
     media |->
        "name: Send Media Test (" \o browser \o
        ")\nplatform: web\n\nconfig:\n  web:\n    baseUrl: " \o baseUrl \o
        "\n    headless: false\n\nvariables:\n  testEmail: " \o creds.email \o
        "\n  testPassword: " \o creds.password \o
        "\n\nsteps:\n  # Login first\n  - type: navigate\n" \o
        "    value: /login\n\n  - type: wait\n    timeout: 2000\n\n" \o
        "  - type: input\n    target:\n" \o
        "      css: \"input[type='email'], input[name='email'], #email\"\n" \o
        "    value: \"{{testEmail}}\"\n\n  - type: input\n    target:\n" \o
        "      css: \"input[type='password'], input[name='password'], #password\"\n" \o
        "    value: \"{{testPassword}}\"\n\n  - type: tap\n    target:\n" \o
        "      css: \"button[type='submit'], .login-button\"\n\n" \o
        "  - type: wait\n    timeout: 3000\n\n  - type: screenshot\n" \o "    name: media-" \o
        browser \o "-after-login.png\n\n  # Navigate to messages\n" \o
        "  - type: navigate\n    value: /messages\n\n  - type: wait\n" \o
        "    timeout: 2000\n\n  - type: screenshot\n    name: media-" \o browser \o
        "-start.png\n\n  # Look for media upload button\n  - type: tap\n" \o "    target:\n" \o
        "      css: \".media-button, .upload-button, [data-testid='media-upload'], .attach-button\"\n" \o
        "    optional: true\n\n  - type: wait\n    timeout: 1000\n\n" \o
        "  - type: screenshot\n    name: media-" \o browser \o "-upload-dialog.png\n",
     smoke |->
        "name: Smoke Test (" \o browser \o
        ")\nplatform: web\n\nconfig:\n  web:\n    baseUrl: " \o baseUrl \o
        "\n    headless: false\n\nvariables:\n  testEmail: " \o creds.email \o
        "\n  testPassword: " \o creds.password \o
        "\n\nsteps:\n  # ===== PUBLIC PAGES =====\n  - type: navigate\n" \o
        "    value: /\n\n  - type: wait\n    timeout: 2000\n\n" \o
        "  - type: screenshot\n    name: smoke-" \o browser \o
        "-01-home.png\n\n  - type: navigate\n    value: /login\n\n" \o
        "  - type: wait\n    timeout: 1500\n\n  - type: screenshot\n" \o "    name: smoke-" \o
        browser \o "-02-login.png\n\n  - type: navigate\n    value: /signup\n\n" \o
        "  - type: wait\n    timeout: 1500\n\n  - type: screenshot\n" \o "    name: smoke-" \o
        browser \o "-03-signup.png\n\n  - type: navigate\n    value: /terms\n\n" \o
        "  - type: wait\n    timeout: 1500\n\n  - type: screenshot\n" \o "    name: smoke-" \o
        browser \o "-04-terms.png\n\n  - type: navigate\n    value: /privacy\n\n" \o
        "  - type: wait\n    timeout: 1500\n\n  - type: screenshot\n" \o "    name: smoke-" \o
        browser \o "-05-privacy.png\n\n  - type: navigate\n    value: /creators\n\n" \o
        "  - type: wait\n    timeout: 1500\n\n  - type: screenshot\n" \o "    name: smoke-" \o
        browser \o "-06-creators.png\n\n  # ===== LOGIN =====\n  - type: navigate\n" \o
        "    value: /login\n\n  - type: wait\n    timeout: 1500\n\n" \o
        "  - type: input\n    target:\n" \o
        "      css: \"input[type='email'], input[name='email'], #email\"\n" \o
        "    value: \"{{testEmail}}\"\n\n  - type: input\n    target:\n" \o
        "      css: \"input[type='password'], input[name='password'], #password\"\n" \o
        "    value: \"{{testPassword}}\"\n\n  - type: tap\n    target:\n" \o
        "      css: \"button[type='submit'], .login-button\"\n\n" \o
        "  - type: wait\n    timeout: 3000\n\n  - type: screenshot\n" \o "    name: smoke-" \o
        browser \o "-07-after-login.png\n\n  # ===== AUTHENTICATED PAGES =====\n" \o
        "  - type: navigate\n    value: /profile\n\n  - type: wait\n" \o
        "    timeout: 1500\n\n  - type: screenshot\n    name: smoke-" \o browser \o
        "-08-profile.png\n\n  - type: navigate\n    value: /settings\n\n" \o
        "  - type: wait\n    timeout: 1500\n\n  - type: screenshot\n" \o "    name: smoke-" \o
        browser \o "-09-settings.png\n\n  - type: navigate\n    value: /messages\n\n" \o
        "  - type: wait\n    timeout: 1500\n\n  - type: screenshot\n" \o "    name: smoke-" \o
        browser \o "-10-messages.png\n\n  - type: navigate\n    value: /checkout\n\n" \o
        "  - type: wait\n    timeout: 1500\n\n  - type: screenshot\n" \o "    name: smoke-" \o
        browser \o "-11-checkout.png\n\n  - type: navigate\n" \o
        "    value: /subscriptions\n\n  - type: wait\n    timeout: 1500\n" \o
        "\n  - type: screenshot\n    name: smoke-" \o browser \o
        "-12-subscriptions.png\n\n  - type: navigate\n    value: /feed\n\n" \o
        "  - type: wait\n    timeout: 1500\n\n  - type: screenshot\n" \o "    name: smoke-" \o
        browser \o "-13-feed.png\n\n  - type: navigate\n    value: /discover\n\n" \o
        "  - type: wait\n    timeout: 1500\n\n  - type: screenshot\n" \o "    name: smoke-" \o
        browser \o "-14-discover.png\n\n  - type: navigate\n" \o
        "    value: /notifications\n\n  - type: wait\n    timeout: 1500\n" \o
        "\n  - type: screenshot\n    name: smoke-" \o browser \o
        "-15-notifications.png\n\n  - type: navigate\n" \o
        "    value: /wallet\n\n  - type: wait\n    timeout: 1500\n\n" \o
        "  - type: screenshot\n    name: smoke-" \o browser \o
        "-16-wallet.png\n\n  - type: navigate\n    value: /admin\n\n" \o
        "  - type: wait\n    timeout: 1500\n\n  - type: screenshot\n" \o "    name: smoke-" \o
        browser \o "-17-admin.png\n\n  - type: navigate\n" \o
        "    value: /admin/agencies\n\n  - type: wait\n" \o
        "    timeout: 1500\n\n  - type: screenshot\n    name: smoke-" \o browser \o
        "-18-admin-agencies.png\n\n  - type: navigate\n" \o
        "    value: /admin/creators\n\n  - type: wait\n" \o
        "    timeout: 1500\n\n  - type: screenshot\n    name: smoke-" \o browser \o
        "-19-admin-creators.png\n",
     profile |->
        "name: Profile Test (" \o browser \o
        ")\nplatform: web\n\nconfig:\n  web:\n    baseUrl: " \o baseUrl \o
        "\n    headless: false\n\nvariables:\n  testEmail: " \o creds.email \o
        "\n  testPassword: " \o creds.password \o
        "\n\nsteps:\n  # Login first\n  - type: navigate\n" \o
        "    value: /login\n\n  - type: wait\n    timeout: 2000\n\n" \o
        "  - type: input\n    target:\n" \o
        "      css: \"input[type='email'], input[name='email'], #email\"\n" \o
        "    value: \"{{testEmail}}\"\n\n  - type: input\n    target:\n" \o
        "      css: \"input[type='password'], input[name='password'], #password\"\n" \o
        "    value: \"{{testPassword}}\"\n\n  - type: tap\n    target:\n" \o
        "      css: \"button[type='submit'], .login-button\"\n\n" \o
        "  - type: wait\n    timeout: 3000\n\n  - type: screenshot\n" \o
        "    name: profile-" \o browser \o "-after-login.png\n\n  # Navigate to profile\n" \o
        "  - type: navigate\n    value: /profile\n\n  - type: wait\n" \o
        "    timeout: 2000\n\n  - type: screenshot\n    name: profile-" \o browser \o
        "-main.png\n\n  # Check for profile elements\n  - type: assert\n" \o
        "    target:\n      css: \"body\"\n\n  - type: screenshot\n" \o "    name: profile-" \o
        browser \o "-content.png\n",
     checkout |->
        "name: Checkout Test (" \o browser \o
        ")\nplatform: web\n\nconfig:\n  web:\n    baseUrl: " \o baseUrl \o
        "\n    headless: false\n\nvariables:\n  testEmail: " \o creds.email \o
        "\n  testPassword: " \o creds.password \o
        "\n\nsteps:\n  # Login first\n  - type: navigate\n" \o
        "    value: /login\n\n  - type: wait\n    timeout: 2000\n\n" \o
        "  - type: input\n    target:\n" \o
        "      css: \"input[type='email'], input[name='email'], #email\"\n" \o
        "    value: \"{{testEmail}}\"\n\n  - type: input\n    target:\n" \o
        "      css: \"input[type='password'], input[name='password'], #password\"\n" \o
        "    value: \"{{testPassword}}\"\n\n  - type: tap\n    target:\n" \o
        "      css: \"button[type='submit'], .login-button\"\n\n" \o
        "  - type: wait\n    timeout: 3000\n\n  - type: screenshot\n" \o
        "    name: checkout-" \o browser \o "-after-login.png\n\n  # Navigate to checkout\n" \o
        "  - type: navigate\n    value: /checkout\n\n  - type: wait\n" \o
        "    timeout: 2000\n\n  - type: screenshot\n    name: checkout-" \o browser \o
        "-main.png\n\n  # Navigate to subscriptions\n  - type: navigate\n" \o
        "    value: /subscriptions\n\n  - type: wait\n    timeout: 2000\n" \o
        "\n  - type: screenshot\n    name: checkout-" \o browser \o
        "-subscriptions.png\n\n  # Navigate to wallet\n" \o
        "  - type: navigate\n    value: /wallet\n\n  - type: wait\n" \o
        "    timeout: 2000\n\n  - type: screenshot\n    name: checkout-" \o browser \o
        "-wallet.png\n",
     settings |->
        "name: Settings Test (" \o browser \o
        ")\nplatform: web\n\nconfig:\n  web:\n    baseUrl: " \o baseUrl \o
        "\n    headless: false\n\nvariables:\n  testEmail: " \o creds.email \o
        "\n  testPassword: " \o creds.password \o
        "\n\nsteps:\n  # Login first\n  - type: navigate\n" \o
        "    value: /login\n\n  - type: wait\n    timeout: 2000\n\n" \o
        "  - type: input\n    target:\n" \o
        "      css: \"input[type='email'], input[name='email'], #email\"\n" \o
        "    value: \"{{testEmail}}\"\n\n  - type: input\n    target:\n" \o
        "      css: \"input[type='password'], input[name='password'], #password\"\n" \o
        "    value: \"{{testPassword}}\"\n\n  - type: tap\n    target:\n" \o
        "      css: \"button[type='submit'], .login-button\"\n\n" \o
        "  - type: wait\n    timeout: 3000\n\n  - type: screenshot\n" \o
        "    name: settings-" \o browser \o "-after-login.png\n\n  # Navigate to settings\n" \o
        "  - type: navigate\n    value: /settings\n\n  - type: wait\n" \o
        "    timeout: 2000\n\n  - type: screenshot\n    name: settings-" \o browser \o
        "-main.png\n\n  # Navigate to notifications\n  - type: navigate\n" \o
        "    value: /notifications\n\n  - type: wait\n    timeout: 2000\n" \o
        "\n  - type: screenshot\n    name: settings-" \o browser \o "-notifications.png\n\n" \o
        "  # Navigate to profile to test settings\n  - type: navigate\n" \o
        "    value: /profile\n\n  - type: wait\n    timeout: 2000\n\n" \o
        "  - type: screenshot\n    name: settings-" \o browser \o "-profile.png\n",
     admin |->
        "name: Admin Dashboard Test (" \o browser \o
        ")\nplatform: web\n\nconfig:\n  web:\n    baseUrl: " \o baseUrl \o
        "\n    headless: false\n\nvariables:\n  adminEmail: " \o CREDENTIALS.creator.email \o
        "\n  adminPassword: " \o CREDENTIALS.creator.password \o
        "\n\nsteps:\n  # Login as admin/creator\n  - type: navigate\n" \o
        "    value: /login\n\n  - type: wait\n    timeout: 2000\n\n" \o
        "  - type: input\n    target:\n" \o
        "      css: \"input[type='email'], input[name='email'], #email\"\n" \o
        "    value: \"{{adminEmail}}\"\n\n  - type: input\n    target:\n" \o
        "      css: \"input[type='password'], input[name='password'], #password\"\n" \o
        "    value: \"{{adminPassword}}\"\n\n  - type: tap\n    target:\n" \o
        "      css: \"button[type='submit'], .login-button\"\n\n" \o
        "  - type: wait\n    timeout: 3000\n\n  - type: screenshot\n" \o "    name: admin-" \o
        browser \o "-after-login.png\n\n  # Navigate to admin dashboard\n" \o
        "  - type: navigate\n    value: /admin\n\n  - type: wait\n" \o
        "    timeout: 2000\n\n  - type: screenshot\n    name: admin-" \o browser \o
        "-dashboard.png\n\n  # Navigate to agencies\n  - type: navigate\n" \o
        "    value: /admin/agencies\n\n  - type: wait\n" \o
        "    timeout: 2000\n\n  - type: screenshot\n    name: admin-" \o browser \o
        "-agencies.png\n\n  # Navigate to creators\n  - type: navigate\n" \o
        "    value: /admin/creators\n\n  - type: wait\n" \o
        "    timeout: 2000\n\n  - type: screenshot\n    name: admin-" \o browser \o
        "-creators.png\n\n  # Navigate to users\n  - type: navigate\n" \o
        "    value: /admin/users\n\n  - type: wait\n    timeout: 2000\n\n" \o
        "  - type: screenshot\n    name: admin-" \o browser \o
        "-users.png\n\n  # Navigate to posts\n  - type: navigate\n" \o
        "    value: /admin/posts\n\n  - type: wait\n    timeout: 2000\n\n" \o
        "  - type: screenshot\n    name: admin-" \o browser \o "-posts.png\n"
    ]

\* what tests[scenario] finds on Object.prototype when `tests` has no such key
JFunction == [t |-> "function", s |-> "", k |-> <<>>]
ObjectPrototype ==
    {"constructor", "toString", "toLocaleString", "valueOf", "hasOwnProperty",
     "isPrototypeOf", "propertyIsEnumerable"}

\* scenario.includes('creator') alone decides
generateTestYaml_CreatorOnly(scenario, browser, platform, baseUrl) ==
    LET isCreatorTest == includes(scenario.s, "creator")
        creds == IF isCreatorTest THEN CREDENTIALS.creator ELSE CREDENTIALS.user
        all == testTemplates(JsToString(browser), JsToString(baseUrl), creds)
    IN  IF scenario.s \in DOMAIN all THEN JStr(all[scenario.s])
        ELSE IF scenario.s \in ObjectPrototype THEN JFunction
        ELSE JStr(all.smoke)

\* generateTestYaml for a scenario that is a string (any other throws at
\* scenario.includes)
generateTestYaml(scenario, browser, platform, baseUrl) ==
    LET isCreatorTest == includes(scenario.s, "creator") \/ includes(scenario.s, "admin")
        creds == IF isCreatorTest THEN CREDENTIALS.creator ELSE CREDENTIALS.user
        all == testTemplates(JsToString(browser), JsToString(baseUrl), creds)
    IN  IF scenario.s \in DOMAIN all THEN JStr(all[scenario.s])
        ELSE IF scenario.s \in ObjectPrototype THEN JFunction
        ELSE JStr(all.smoke)

\* the request bodies of POST /api/generate
Scenarios ==
    {JStr(n) : n \in {"login", "signup", "messages", "media", "smoke", "profile",
                      "checkout", "settings", "admin", "admin-dashboard",
                      "creator-upload", "my-creators", "administrator", "logout",
                      "constructor", ""}}
      \cup {Undefined}
GenerateBodies ==
    {[scenario |-> n, browser |-> b, platform |-> JStr("web"), baseUrl |-> u] :
        n \in Scenarios, b \in {JStr("chromium"), JStr("firefox")},
        u \in {Undefined, JStr("http://localhost:3000")}}

\* lines 143-146: an exception reaches the handler's catch, after the
\* messages already broadcast in the same step
CatchAfter(broadcasts, what, message) ==
    /\ fault' = what
    /\ broadcast(broadcasts \o <<Event("error", message)>>)
    /\ response' = ErrorResponse(message)
    /\ pc' = "done"

\* lines 124-140: the request arrives; the handler runs up to the import
Generate(body) ==
    /\ pc = "idle"
    /\ req' = body
    /\ LET status == Event("status", "Generating " \o JsToString(body.scenario)
                             \o " test for " \o JsToString(body.browser) \o "...")
       IN  IF body.scenario.t # "str"
           THEN /\ CatchAfter(<<status>>, "render",
                      "Cannot read properties of undefined (reading 'includes')")
                /\ UNCHANGED <<testContent, testFile>>
           ELSE /\ testContent' = generateTestYaml(body.scenario, body.browser,
                      body.platform, Or(body.baseUrl, JStr("http://localhost:4444")))
                /\ testFile' = serverSettings.testDir \o "/" \o JsToString(body.scenario)
                      \o "-" \o JsToString(body.browser) \o ".test.yaml"
                /\ broadcast(<<status>>)
                /\ pc' = "generateImport"
                /\ UNCHANGED <<fault, response>>
    /\ UNCHANGED <<serverSettings, files, suiteVars, clients, readyState, child,
                   settingsReq, settingsRes>>

\* line 141: the import is done; fs.writeFile is called
GenerateImportDone ==
    /\ pc = "generateImport"
    /\ pc' = "generateWrite"
    /\ UNCHANGED <<req, serverSettings, files, events, response, fault, suiteVars,
                   apiVars>>

\* lines 141-146: fs.writeFile settles.  It rejects data that is not a string
\* whatever the file system does.
GenerateWriteDone(ok) ==
    /\ pc = "generateWrite"
    /\ IF testContent.t # "str"
       THEN /\ CatchAfter(<<>>, "data",
                 "The \"data\" argument must be of type string or an instance of "
                 \o "Buffer, TypedArray, or DataView. Received function Object")
            /\ files' = files
       ELSE IF ~ok
       THEN /\ CatchAfter(<<>>, "write",
                 "ENOENT: no such file or directory, open '" \o testFile \o "'")
            /\ files' = files
       ELSE /\ files' = Append(files, [path |-> testFile, content |-> testContent.s])
            /\ broadcast(<<Event("success", "Test generated: " \o testFile)>>)
            /\ response' = [status |-> 200, body |-> [success |-> TRUE, path |-> testFile]]
            /\ pc' = "done"
            /\ fault' = fault
    /\ UNCHANGED <<req, serverSettings, suiteVars, clients, readyState, child,
                   settingsReq, settingsRes, testContent, testFile>>

NextGenerate ==
    \/ \E body \in GenerateBodies : Generate(body)
    \/ GenerateImportDone
    \/ \E ok \in BOOLEAN : GenerateWriteDone(ok)

\* both generation endpoints: a request of either kind arrives
SpecGenerate == Init /\ [][Next \/ NextGenerate]_vars

-----------------------------------------------------------------------------
(* POST and GET /api/settings.                                             *)

\* at most MaxPosts settings requests are followed
MaxPosts == 3

\* the server as it starts when the environment sets no API key
InitDefault == Init /\ serverSettings = DefaultSettings

\* serverSettings = req.body: every field is assigned, empty or not
PostSettings_Assign(body) ==
    /\ Len(events) < MaxPosts
    /\ serverSettings' = body
    /\ broadcast(<<Event("status", "Settings updated")>>)
    /\ settingsReq' = body
    /\ settingsRes' = [status |-> 200, body |-> [success |-> TRUE]]
    /\ UNCHANGED <<pc, req, files, response, fault, suiteVars, clients, readyState,
                   child, testContent, testFile>>

\* lines 33-41; a field that is absent from the body is "", which is falsy
\* as undefined is
PostSettings(body) ==
    /\ Len(events) < MaxPosts
    /\ serverSettings' =
          [provider |-> IF body.provider # "" THEN body.provider ELSE serverSettings.provider,
           apiKey   |-> IF body.apiKey # "" THEN body.apiKey ELSE serverSettings.apiKey,
           model    |-> IF body.model # "" THEN body.model ELSE serverSettings.model,
           testDir  |-> IF body.testDir # "" THEN body.testDir ELSE serverSettings.testDir]
    /\ broadcast(<<Event("status", "Settings updated")>>)
    /\ settingsReq' = body
    /\ settingsRes' = [status |-> 200, body |-> [success |-> TRUE]]
    /\ UNCHANGED <<pc, req, files, response, fault, suiteVars, clients, readyState,
                   child, testContent, testFile>>

\* lines 43-50
GetSettings ==
    /\ settingsRes' = [status |-> 200,
                       body |-> [provider  |-> serverSettings.provider,
                                 hasApiKey |-> serverSettings.apiKey # "",
                                 model     |-> serverSettings.model,
                                 testDir   |-> serverSettings.testDir]]
    /\ UNCHANGED <<pc, req, serverSettings, files, events, response, fault, suiteVars,
                   clients, readyState, inbox, child, settingsReq, testContent, testFile>>

SettingsBodies ==
    {[provider |-> p, apiKey |-> k, model |-> m, testDir |-> d] :
        p \in {"", "openai"}, k \in {"", "sk-new"}, m \in {"", "gpt-4o"},
        d \in {"", "/tmp/tests"}}

NextSettings ==
    \/ \E body \in SettingsBodies : PostSettings(body)
    \/ GetSettings

SpecSettings == Init /\ [][NextSettings]_vars

-----------------------------------------------------------------------------
(* The WebSocket server and POST /api/run.                                 *)

\* the handlers stop broadcasting once MaxEvents events have been broadcast;
\* the subprocess writes at most MaxChunks chunks
MaxEvents == 4
MaxChunks == 2

\* lines 1324-1326: a connection is accepted
Connect(ws) ==
    /\ readyState[ws] = "ABSENT"
    /\ clients' = clients \cup {ws}
    /\ readyState' = [readyState EXCEPT ![ws] = "OPEN"]
    /\ inbox' = [inbox EXCEPT
                   ![ws] = Append(@, Event("connected", "Connected to Intellyo"))]
    /\ UNCHANGED <<pc, req, serverSettings, files, events, response, fault, suiteVars,
                   child, settingsReq, settingsRes, testContent, testFile>>

\* the closing handshake of a socket begins: it is no longer OPEN, and its
\* 'close' event has not been emitted yet
SocketClosing(ws) ==
    /\ readyState[ws] = "OPEN"
    /\ readyState' = [readyState EXCEPT ![ws] = "CLOSING"]
    /\ UNCHANGED <<pc, req, serverSettings, files, events, response, fault, suiteVars,
                   clients, inbox, child, settingsReq, settingsRes, testContent,
                   testFile>>

\* lines 1328-1330: the socket is closed and its 'close' event is emitted
SocketClose(ws) ==
    /\ readyState[ws] \in {"OPEN", "CLOSING"}
    /\ readyState' = [readyState EXCEPT ![ws] = "CLOSED"]
    /\ clients' = clients \ {ws}
    /\ UNCHANGED <<pc, req, serverSettings, files, events, response, fault, suiteVars,
                   inbox, child, settingsReq, settingsRes, testContent, testFile>>

\* path.basename and path.dirname of a path that does not end with "/"
basename(p) ==
    LET slashes == {i \in 1..Len(p) : SubSeq(p, i, i) = "/"}
        last == IF slashes = {} THEN 0 ELSE CHOOSE i \in slashes : \A j \in slashes : j <= i
    IN  SubSeq(p, last + 1, Len(p))
dirname(p) ==
    LET slashes == {i \in 1..Len(p) : SubSeq(p, i, i) = "/"}
        last == IF slashes = {} THEN 0 ELSE CHOOSE i \in slashes : \A j \in slashes : j <= i
    IN  IF last = 0 THEN "." ELSE IF last = 1 THEN "/" ELSE SubSeq(p, 1, last - 1)

\* code ? 'error' : 'success'
FinalEvent_Truthy(code) ==
    Event(IF Truthy(code) THEN "error" ELSE "success",
          "Test finished with code " \o JsToString(code))

\* lines 176-179: the event of the 'close' handler
FinalEvent(code) ==
    Event(IF code.t = "num" /\ code.s = "0" THEN "success" ELSE "error",
          "Test finished with code " \o JsToString(code))

\* lines 150-183: the whole handler; it has no await
Run(body) ==
    /\ child.state = "none"
    /\ Len(events) < MaxEvents
    /\ req' = body
    /\ broadcast(<<Event("status", "Running test: " \o basename(body.testPath))>>)
    /\ child' = [state |-> "running", code |-> Undefined, out |-> 0,
                 args |-> <<"intellitester", "run", body.testPath>>
                            \o (IF body.visible THEN <<"--visible">> ELSE <<>>)
                            \o (IF body.browser # "" THEN <<"--browser", body.browser>>
                                ELSE <<>>),
                 cwd |-> dirname(dirname(body.testPath))]
    /\ response' = [status |-> 200,
                    body |-> [success |-> TRUE, message |-> "Test started"]]
    /\ UNCHANGED <<pc, serverSettings, files, fault, suiteVars, clients, readyState,
                   settingsReq, settingsRes, testContent, testFile>>

\* lines 168-174: the subprocess writes to its stdout or to its stderr
ChildData(stream, data) ==
    /\ child.state = "running"
    /\ child.out < MaxChunks
    /\ Len(events) < MaxEvents
    /\ broadcast(<<Event("output", data)>>)
    /\ child' = [child EXCEPT !.out = @ + 1]
    /\ UNCHANGED <<pc, req, serverSettings, files, response, fault, suiteVars, clients,
                   readyState, settingsReq, settingsRes, testContent, testFile>>

\* lines 176-181: the subprocess has ended and its streams are closed; code
\* is null when a signal ended it
ChildClose(code) ==
    /\ child.state = "running"
    /\ broadcast(<<FinalEvent(code)>>)
    /\ child' = [child EXCEPT !.state = "closed", !.code = code]
    /\ UNCHANGED <<pc, req, serverSettings, files, response, fault, suiteVars, clients,
                   readyState, settingsReq, settingsRes, testContent, testFile>>

RunBodies ==
    {[testPath |-> DefaultTestDir \o "/shop/login.test.yaml", browser |-> "",
      visible |-> FALSE],
     [testPath |-> "login.test.yaml", browser |-> "firefox", visible |-> TRUE]}

NextServer ==
    \/ \E ws \in Sockets : Connect(ws)
    \/ \E ws \in Sockets : SocketClosing(ws)
    \/ \E ws \in Sockets : SocketClose(ws)
    \/ \E body \in RunBodies : Run(body)
    \/ \E data \in {"1 passed\n"} : ChildData("stdout", data)
    \/ \E data \in {"Error: element not found\n"} : ChildData("stderr", data)
    \/ \E code \in {JNum("0"), JNum("1"), JNull} : ChildClose(code)
    \/ PostSettings([provider |-> "openai", apiKey |-> "", model |-> "",
                     testDir |-> ""])

SpecServer == InitDefault /\ [][NextServer]_vars

-----------------------------------------------------------------------------
(* A suite-generation request with settings requests arriving before it,   *)
(* at its awaits, and after it.                                            *)

NextInterleave ==
    \/ \E p \in {"", "openai"} :
          GenerateSuite(Body(<<"L","O","G","I","N"," ","s","i","g","n","u","p">>,
                             "shop", "http://localhost:3000", p, "", ""))
    \/ ImportDone
    \/ \E ok \in BOOLEAN : MkdirDone(ok)
    \/ \E ok \in BOOLEAN : FetchDone(ok)
    \/ \E outcome \in {[kind |-> "notext", text |-> <<>>],
                       [kind |-> "text", text |-> Ser(JArr(<<SpecX, SpecY>>))]} :
          JsonDone(outcome)
    \/ \E ok \in BOOLEAN : WriteDone(ok)
    \/ \E body \in {[provider |-> "", apiKey |-> "", model |-> "", testDir |-> "/tmp/tests"],
                    [provider |-> "openai", apiKey |-> "", model |-> "",
                     testDir |-> "/srv/tests"],
                    [provider |-> "anthropic", apiKey |-> "sk-new", model |-> "",
                     testDir |-> ""]} :
          PostSettings(body)

SpecInterleave == InitDefault /\ [][NextInterleave]_vars

-----------------------------------------------------------------------------
(* Claims about the responses and events of the generation endpoints.      *)

\* C11 as first stated: on a failing request the response body carries only
\* a generic message; the diagnostic text of the error that is broadcast in
\* the error event never appears in the response body.
C11_GenericBody ==
    response.status = 500 =>
        \A i \in 1..Len(events) :
            events[i].type = "error" => events[i].message # response.body.error

\* C11: on every failing path of POST /api/generate-suite and of POST
\* /api/generate the response has status 500 and its body is { error } with
\* the caught error's message, the very text of the error event that was
\* broadcast last.
C11_BodyRepeatsDiagnostic ==
    response.status = 500 =>
        /\ fault # "none"
        /\ events # <<>>
        /\ events[Len(events)] = Event("error", response.body.error)
        /\ response.body = [error |-> events[Len(events)].message]
        /\ Count("error") = 1

\* a single-test request failed at its file write, and a suite request can
\* fail too
C11_Witness ==
    /\ response.status = 500
    /\ fault = "write"
    /\ testFile # ""
    /\ response.body.error = "ENOENT: no such file or directory, open '" \o testFile \o "'"

\* the events after the request's status event that stem neither from the
\* extraction (fallback notices), nor from the file writes ('Created',
\* the final success event, a write's error)
CallReports ==
    {i \in 2..Len(events) :
        /\ <<events[i]>> \notin {ParseFailedMsg, NoJsonMsg}
        /\ ~(events[i].type = "output" /\ StartsWith(events[i].message, "Created: "))
        /\ events[i].type # "success"
        /\ ~(events[i].type = "error" /\ fault \in {"mkdir", "write"})}

\* C12 as first stated: once a provider call has ended, in success or in
\* failure, an event reporting its result has been broadcast.
C12_CallResultReported ==
    (netCalls # <<>> /\ pc \in {"write", "done"}) => CallReports # {}

\* C12: a provider call broadcasts no event of its own.  While it is in
\* flight and after it succeeded, the request's status event is followed by
\* nothing but the events of the extraction and of the file writes; only a
\* failed call is followed by one event, the error event of the handler's
\* catch, with which the request ends without returning to the pipeline.
C12_CallIsSilent ==
    /\ pc \in {"fetch", "json"} => (Len(events) = 1 /\ events[1].type = "status")
    /\ ProviderAnswered => CallReports = {}
    /\ fault \in {"fetch", "body"} =>
          /\ CallReports = {2}
          /\ Len(events) = 2
          /\ events[2].type = "error"
          /\ response.status = 500
          /\ pc = "done" /\ tests = <<>> /\ fallbackCalls = 0

\* the provider answered with an extractable text, and nothing has been
\* broadcast since the request's status event
C12_Witness ==
    /\ ProviderAnswered
    /\ pc = "write" /\ testsCreated = 0 /\ fallbackCalls = 0
    /\ Len(events) = 1

\* the 'Created' output events broadcast so far, in order
CreatedEvents ==
    SelectSeq(events, LAMBDA e : e.type = "output" /\ StartsWith(e.message, "Created: "))

-----------------------------------------------------------------------------
(* Claims about the settings endpoints.                                    *)

SettingsFields == {"provider", "apiKey", "model", "testDir"}

\* C17: POST /api/settings changes exactly the fields for which the request
\* supplies a non-empty value, to that value; so an apiKey or model that is
\* non-empty stays non-empty whatever settings requests follow.  GET
\* /api/settings changes nothing and reports hasApiKey true exactly when the
\* stored apiKey is non-empty, without a field that holds the key.
C17_SettingsFrame ==
    [][/\ events' # events =>
            \A f \in SettingsFields :
                /\ settingsReq'[f] # "" => serverSettings'[f] = settingsReq'[f]
                /\ settingsReq'[f] = "" => serverSettings'[f] = serverSettings[f]
       /\ events' = events =>
            /\ serverSettings' = serverSettings
            /\ settingsRes'.status = 200
            /\ settingsRes'.body.hasApiKey = (serverSettings.apiKey # "")
            /\ DOMAIN settingsRes'.body = {"provider", "hasApiKey", "model", "testDir"}
            /\ \A f \in {"provider", "model", "testDir"} :
                  settingsRes'.body[f] = serverSettings[f]
       /\ serverSettings.apiKey # "" => serverSettings'.apiKey # ""
       /\ serverSettings.model # "" => serverSettings'.model # ""
      ]_vars

\* a key was stored, a later request without a key changed the provider, and
\* GET reports the key as present
C17_Witness ==
    /\ Len(events) >= 2
    /\ settingsReq.apiKey = "" /\ settingsReq.provider = "openai"
    /\ serverSettings.apiKey = "sk-new"
    /\ "hasApiKey" \in DOMAIN settingsRes.body
    /\ settingsRes.body.hasApiKey

-----------------------------------------------------------------------------
(* Claims about the WebSocket clients and about test runs.                 *)

\* the events broadcast by the step
Sent == SubSeq(events', Len(events) + 1, Len(events'))

\* C14: whatever the interleaving of connections, disconnections and
\* broadcasts, a socket is added to the client set when it connects (and is
\* sent the greeting), is removed when it closes and never returns; each
\* broadcast is sent, in order, to every socket that is in the client set
\* and OPEN at that moment, and to no other socket, so a socket receives
\* nothing once it is no longer open.
C14_DeliveryToOpenClients ==
    [][/\ \A ws \in Sockets :
            IF ws \notin clients /\ ws \in clients'
            THEN /\ readyState[ws] = "ABSENT" /\ readyState'[ws] = "OPEN"
                 /\ inbox'[ws] = <<Event("connected", "Connected to Intellyo")>>
                 /\ Sent = <<>>
            ELSE IF ws \in clients /\ readyState[ws] = "OPEN"
            THEN inbox'[ws] = inbox[ws] \o Sent
            ELSE inbox'[ws] = inbox[ws]
       /\ \A ws \in clients \ clients' : readyState'[ws] = "CLOSED"
       /\ \A ws \in Sockets :
            /\ readyState'[ws] = "CLOSED" => ws \notin clients'
            /\ readyState[ws] = "CLOSED" => readyState'[ws] = "CLOSED"
            /\ readyState[ws] = "CLOSING" => readyState'[ws] \in {"CLOSING", "CLOSED"}
            /\ readyState'[ws] = "OPEN" => ws \in clients'
      ]_vars

\* one socket has closed after it received an event, another is closing and
\* still in the set; events were broadcast since
C14_Witness ==
    \E a, b \in Sockets :
        /\ readyState[a] = "CLOSED" /\ a \notin clients /\ Len(inbox[a]) = 2
        /\ readyState[b] = "CLOSING" /\ b \in clients
        /\ Len(inbox[b]) >= 2
        /\ Len(events) > Len(inbox[b])

\* the positions in events of the output events and of the final events of
\* the run
OutputEvents == {i \in 1..Len(events) : events[i].type = "output"}
FinalEvents ==
    {i \in 1..Len(events) : StartsWith(events[i].message, "Test finished with code ")}

\* C16: the response 'Test started' of POST /api/run is sent when the
\* subprocess is spawned, without waiting for it; every output event, one
\* per chunk of the subprocess's stdout or stderr, is broadcast before the
\* run's final event; when the subprocess closes exactly one final event is
\* broadcast, of type success if and only if the exit code is 0 and of type
\* error otherwise.
C16_RunEvents ==
    /\ child.state = "none" =>
          (response = NoResponse /\ OutputEvents = {} /\ FinalEvents = {})
    /\ child.state = "running" =>
          /\ response.status = 200
          /\ response.body = [success |-> TRUE, message |-> "Test started"]
          /\ FinalEvents = {}
    /\ Cardinality(OutputEvents) = child.out
    /\ child.state = "closed" =>
          /\ response.body = [success |-> TRUE, message |-> "Test started"]
          /\ Cardinality(FinalEvents) = 1
          /\ \A f \in FinalEvents :
                /\ \A o \in OutputEvents : o < f
                /\ (events[f].type = "success") <=> (child.code = JNum("0"))
                /\ (events[f].type = "error") <=> (child.code # JNum("0"))

\* a run whose subprocess wrote two chunks and was ended by a signal
C16_Witness ==
    /\ child.state = "closed"
    /\ child.code = JNull
    /\ child.out = 2
    /\ \E f \in FinalEvents :
          events[f] = Event("error", "Test finished with code null")

-----------------------------------------------------------------------------
(* Claims about the single-test templates.                                 *)

\* the scenario names of Scenarios that contain "creator" or "admin"
PrivilegedScenarios ==
    {"admin", "admin-dashboard", "creator-upload", "my-creators", "administrator"}

\* C15: for every scenario name for which generateTestYaml renders a test,
\* the test holds the creator's credential pair if the name contains
\* "creator" or "admin" and the standard user's pair otherwise, and never
\* the other pair's email; so for "admin-dashboard", which matches no
\* template, the smoke template holds the creator's pair, and for "login"
\* the login template holds the user's.  The file written holds that test.
C15_CredentialChoice ==
    (pc \in {"generateImport", "generateWrite", "done"} /\ testContent.t = "str") =>
        LET privileged == req.scenario.s \in PrivilegedScenarios
            email == IF privileged THEN "newcreator@test.com" ELSE "newuser@test.com"
            other == IF privileged THEN "newuser@test.com" ELSE "newcreator@test.com"
        IN  /\ includes(testContent.s, ": " \o email \o "\n")
            /\ includes(testContent.s, ": Leonidas12!\n")
            /\ ~includes(testContent.s, other)
            /\ \A i \in 1..Len(files) : files[i].content = testContent.s

\* "admin-dashboard" matches no template: the smoke template was rendered
\* and written with the creator's pair
C15_Witness ==
    /\ pc = "done"
    /\ testContent.t = "str"
    /\ req.scenario = JStr("admin-dashboard")
    /\ Len(files) = 1
    /\ StartsWith(files[1].content, "name: Smoke Test (")
    /\ includes(files[1].content, "testEmail: newcreator@test.com\n")

-----------------------------------------------------------------------------
(* Claims about a suite request interleaved with settings requests.        *)

\* C18 as first stated: every file of the request is written under the
\* project directory of the testDir that was in effect when the request
\* arrived, and the response reports that directory.
C18_DirectoryAtRequestStart ==
    pc # "idle" =>
        LET dir == startTestDir \o "/" \o req.projectName
        IN  /\ \A i \in 1..Len(files) : StartsWith(files[i].path, dir \o "/")
            /\ response.status = 200 => response.body.directory = dir

\* C18: the project directory of a request is computed once, when its
\* module import has completed, from the testDir in effect at that moment
\* (a settings request that arrived during the import is taken into
\* account); from then on no settings request changes it: every file of
\* the request is written under it and the response reports it, so the
\* request never spreads its files over two directories.
C18_OneDirectory ==
    [][/\ (pc = "import" /\ pc' = "mkdir") =>
            projectTestDir' = serverSettings.testDir \o "/" \o req.projectName
       /\ pc \notin {"idle", "import"} => projectTestDir' = projectTestDir
       /\ \A i \in 1..Len(files') :
            /\ StartsWith(files'[i].path, projectTestDir' \o "/")
            /\ files'[i].path =
                  projectTestDir' \o "/" \o JsToString(tests'[i].name) \o ".test.yaml"
       /\ response'.status = 200 => response'.body.directory = projectTestDir'
      ]_vars

\* the testDir was changed during the import and again during the writes:
\* both files are in the directory named after the first change
C18_Witness ==
    /\ response.status = 200
    /\ Len(files) = 2
    /\ startTestDir = DefaultTestDir
    /\ projectTestDir = "/tmp/tests/shop"
    /\ serverSettings.testDir = "/srv/tests"
    /\ \A i \in 1..2 : StartsWith(files[i].path, "/tmp/tests/shop/")

====
